---- MODULE Spec2Model ----
(***************************************************************************)
(* State-machine model of the SnowStreamGauge Feather logger firmware:     *)
(* boot probing (setup), the control loop (await-time, calibration,        *)
(* normal operation), the presence recheck I2C_Check_Sensors and the       *)
(* observation assembly OBS_Do with its median sampler, quality gates and  *)
(* hand-made "%d.%02d" record formatting.                                  *)
(*                                                                         *)
(* Floats are modelled as exact fixed-point numbers: a float is a record   *)
(* [nan, v] where v counts ten-thousandths (Unit per 1.0), so that a cast  *)
(* to int truncates toward zero and 1/16 degree steps are exact.  Binary   *)
(* rounding error of float32 is not modelled.                              *)
(* Text is a sequence of one-character strings.                            *)
(***************************************************************************)
EXTENDS Integers, Sequences, FiniteSets, TLC

(* ---------------------------------------------------------------------- *)
(* Program constants                                                       *)
(* ---------------------------------------------------------------------- *)
SSB_PWRON == 1
SSB_SD == 2
SSB_RTC == 4
SSB_OLED == 8
SSB_BMX_1 == 128
SSB_BMX_2 == 256
SSB_MCP_1 == 2048
SSB_DS_1 == 4096

BMX_ADDRESS_1 == 119
BMX_ADDRESS_2 == 118
BMP280_CHIP_ID == 88
BME280_BMP390_CHIP_ID == 96
BMP388_CHIP_ID == 80
BMX_TYPE_UNKNOWN == 0
BMX_TYPE_BMP280 == 1
BMX_TYPE_BME280 == 2
BMX_TYPE_BMP388 == 3
BMX_TYPE_BMP390 == 4

SG_BUCKETS == 60
CountdownInit == 1800

\* One unit of the fixed-point float model: 1.0 == Unit.
Unit == 100 * 100

\* float values
F(x) == [nan |-> FALSE, v |-> x]
NaN == [nan |-> TRUE, v |-> 0]
isnan(f) == f.nan
\* C comparisons on floats: every comparison with a NaN is false.
FLt(a, b) == ~a.nan /\ ~b.nan /\ a.v < b.v
FGt(a, b) == ~a.nan /\ ~b.nan /\ a.v > b.v

QC_MIN_T == F(-40 * Unit)
QC_MAX_T == F(60 * Unit)
QC_ERR_T == F(-9999000)
QC_MIN_P == F(300 * Unit)
QC_MAX_P == F(1100 * Unit)
QC_ERR_P == F(-9999000)
QC_MIN_RH == F(0)
QC_MAX_RH == F(100 * Unit)
QC_ERR_RH == F(-9999000)

(* ---------------------------------------------------------------------- *)
(* Bounds of the model                                                     *)
(* ---------------------------------------------------------------------- *)
\* calibration iterations explored (countdown runs from 1800 in the code)
MaxCalib == 2
\* days the real-time clock may advance during a run
MaxDay == 1
\* how many of the environment's answers in one run depart from the nominal
\* ones (a part of the board, a sensor reading, a bus answer, a console line)
\* the last iterations of calibration mode that are followed one by one
CalTail == 2
MaxDev == 2

(* ---------------------------------------------------------------------- *)
(* Integer helpers: C semantics                                            *)
(* ---------------------------------------------------------------------- *)
\* C integer division and remainder truncate toward zero.
TruncDiv(a, b) == IF a >= 0 THEN a \div b ELSE -((-a) \div b)
CMod(a, b) == a - b * TruncDiv(a, b)
\* (int)f for a float inside the int range
CInt(f) == TruncDiv(f.v, Unit)
\* (int)(f*100)
CInt100(f) == TruncDiv(f.v * 100, Unit)

HasBit(x, b) == (x \div b) % 2 = 1
\* a variant that leaves the bit as it was
SetBit_noop(x, b) == x
SetBit(x, b) == IF b = 0 \/ HasBit(x, b) THEN x ELSE x + b
\* a variant that leaves the bit as it was
ClrBit_noop(x, b) == x
ClrBit(x, b) == IF HasBit(x, b) THEN x - b ELSE x

(* ---------------------------------------------------------------------- *)
(* printf conversions                                                      *)
(* ---------------------------------------------------------------------- *)
DigitChar(d) == <<"0", "1", "2", "3", "4", "5", "6", "7", "8", "9">>[d + 1]

RECURSIVE Digits(_)
Digits(n) == IF n < 10 THEN <<DigitChar(n)>>
             ELSE Append(Digits(n \div 10), DigitChar(n % 10))

RECURSIVE ZeroPad(_, _)
ZeroPad(s, w) == IF Len(s) >= w THEN s ELSE ZeroPad(<<"0">> \o s, w)

\* %d
FmtD(x) == IF x < 0 THEN <<"-">> \o Digits(-x) ELSE Digits(x)
\* %u given an int argument: the 32-bit two's complement pattern read unsigned
\* (2^32 + x for x < 0, written as 42949 * 10^5 + 67296 + x in two halves)
FmtU(x) == IF x >= 0 THEN Digits(x)
           ELSE LET lo == 67296 + x
                IN  Digits(42949 + (lo \div 100000))
                    \o ZeroPad(Digits(lo % 100000), 5)
\* %0wd: the sign counts in the field width, zeros go after the sign
Fmt0D(x, w) == IF x < 0 THEN <<"-">> \o ZeroPad(Digits(-x), w - 1)
               ELSE ZeroPad(Digits(x), w)

\* "%d.%02d", (int)f, (int)(f*100)%100
FmtD_02(f) == FmtD(CInt(f)) \o <<".">> \o Fmt0D(CMod(CInt100(f), 100), 2)
\* "%d.%04d", (int)f, (int)(f*100)%100
FmtD_04(f) == FmtD(CInt(f)) \o <<".">> \o Fmt0D(CMod(CInt100(f), 100), 4)
\* "%u.%04d", (int)f, (int)(f*100)%100
FmtU_04(f) == FmtU(CInt(f)) \o <<".">> \o Fmt0D(CMod(CInt100(f), 100), 4)

(* ---------------------------------------------------------------------- *)
(* Quality control gate                                                    *)
(* ---------------------------------------------------------------------- *)
\* a variant with the bounds excluded from the envelope
Gate_exclusive(v, min, max, err) ==
    IF isnan(v) \/ ~FGt(v, min) \/ ~FLt(v, max) THEN err ELSE v

\* (isnan(v) || (v < min) || (v > max)) ? err : v
Gate(v, min, max, err) ==
    IF isnan(v) \/ FLt(v, min) \/ FGt(v, max) THEN err ELSE v

GateP(v) == Gate(v, QC_MIN_P, QC_MAX_P, QC_ERR_P)
\* a variant without the isnan() test: a NaN fails both comparisons
GateT_nonan(v) == IF FLt(v, QC_MIN_T) \/ FGt(v, QC_MAX_T) THEN QC_ERR_T ELSE v
GateT(v) == Gate(v, QC_MIN_T, QC_MAX_T, QC_ERR_T)
GateRH(v) == Gate(v, QC_MIN_RH, QC_MAX_RH, QC_ERR_RH)

(* ---------------------------------------------------------------------- *)
(* Median sampler                                                          *)
(* ---------------------------------------------------------------------- *)
\* myswap(&a[j], &a[j+1]); arrays are 1-based here, so C index j is j+1.
myswap(a, j) == [a EXCEPT ![j + 1] = a[j + 2], ![j + 2] = a[j + 1]]

\* inner loop of mysort: for (j = 0; j < n-i-1; j++) if (a[j] > a[j+1]) swap
BubblePass[a \in Seq(Nat), j \in Nat, lim \in Nat] ==
    IF j >= lim THEN a
    ELSE BubblePass[IF a[j + 1] > a[j + 2] THEN myswap(a, j) ELSE a, j + 1, lim]

\* outer loop of mysort: for (i = 0; i < n-1; i++)
SortFrom[a \in Seq(Nat), i \in Nat, n \in Nat] ==
    IF i >= n - 1 THEN a
    ELSE SortFrom[BubblePass[a, 0, n - i - 1], i + 1, n]

mysort(a, n) == SortFrom[a, 0, n]

\* a variant selecting the upper of the two middle elements
MedianIndex_upper == SG_BUCKETS \div 2
\* the index s_gauge_median selects, as a C (0-based) index
MedianIndex == (SG_BUCKETS + 1) \div 2 - 1

\* the raw reading s_gauge_median selects from the window it sampled
RawMedian(w) == mysort(w, SG_BUCKETS)[MedianIndex + 1]

\* Windows of SG_BUCKETS analog readings (10-bit, 0..1023).
\* every bucket the same reading
WinConst(x) == [i \in 1..SG_BUCKETS |-> x]
\* distinct readings, largest first
WinDesc == [i \in 1..SG_BUCKETS |-> SG_BUCKETS + 1 - i]
\* distinct readings, scrambled
WinMix == [i \in 1..SG_BUCKETS |-> ((i * 7) % SG_BUCKETS) + 1]
\* c readings lo and the others hi: lo first ("asc"), hi first ("desc") or
\* interleaved ("mix")
WinTwo(c, lo, hi, pat) ==
    [i \in 1..SG_BUCKETS |->
        IF pat = "asc" THEN (IF i <= c THEN lo ELSE hi)
        ELSE IF pat = "desc" THEN (IF i <= SG_BUCKETS - c THEN hi ELSE lo)
        ELSE (IF ((i * 7) % SG_BUCKETS) < c THEN lo ELSE hi)]

\* the windows an observation samples in this model
ObsWindows == {WinConst(512), WinDesc, WinTwo(30, 100, 900, "mix")}
\* the windows the sampler is exercised on by itself
FnWindows ==
    {WinDesc, WinMix, WinConst(0), WinConst(1023)}
    \cup {WinTwo(c, 100, 900, pat) : c \in 0..SG_BUCKETS,
                                     pat \in {"asc", "desc", "mix"}}
Windows == ObsWindows \cup FnWindows

\* the sampler's selection for each of these windows, computed once
MedianOf == [w \in Windows |-> RawMedian(w)]

\* s_gauge_median(): the raw median scaled by the configured sensor range
s_gauge_median(w, ds_type) ==
    IF ds_type # 0 THEN MedianOf[w] * 5 ELSE MedianOf[w] * 10

(* ---------------------------------------------------------------------- *)
(* State                                                                   *)
(* ---------------------------------------------------------------------- *)
VARIABLES
    pc,                   \* position of the single control thread
    SystemStatusBits,     \* the health bit-field (hth)
    JustPoweredOn,
    SerialConsoleEnabled,
    first,                \* static bool first of loop()
    SD_exists,
    cf_ds_type,
    RTC_valid,
    RTC_exists,
    rtc,                  \* the clock chip: [year, day]
    now,                  \* global now: the clock value last read
    countdown,
    ds_found,
    ds_reading,
    ds_valid,
    BMX_chip_id,          \* <<BMX_1_chip_id, BMX_2_chip_id>>
    BMX_type,
    BMX_exists,
    MCP_1_exists,
    drv,                  \* driver objects: address and result of the last begin()
    msgbuf,               \* the record OBS_Do assembled (scratch between calls)
    outlog,               \* messages the last step passed to Output()
    serial,               \* lines the last step printed on the serial console
    obs,                  \* what the last step's OBS_Do call did
    chk,                  \* what the last step's I2C_Check_Sensors call did
    boot,                 \* what the last step's bmx_initialize call did
    dev,                  \* answers of the environment that departed from the nominal
    fin,                  \* input of the function under test (function specifications)
    fout                  \* its result

progVars == <<pc, SystemStatusBits, JustPoweredOn, SerialConsoleEnabled, first,
              SD_exists, cf_ds_type, RTC_valid, RTC_exists, rtc, now, countdown,
              ds_found, ds_reading, ds_valid, BMX_chip_id, BMX_type, BMX_exists,
              MCP_1_exists, drv, msgbuf, outlog, serial, obs, chk, boot>>
vars == <<pc, SystemStatusBits, JustPoweredOn, SerialConsoleEnabled, first,
          SD_exists, cf_ds_type, RTC_valid, RTC_exists, rtc, now, countdown,
          ds_found, ds_reading, ds_valid, BMX_chip_id, BMX_type, BMX_exists,
          MCP_1_exists, drv, msgbuf, outlog, serial, obs, chk, boot, dev, fin, fout>>

Slots == {1, 2}
Drivers == {"bmp1", "bmp2", "bme1", "bme2", "bm31", "bm32"}
BmxAddress(n) == IF n = 1 THEN BMX_ADDRESS_1 ELSE BMX_ADDRESS_2
SSB_BMX(n) == IF n = 1 THEN SSB_BMX_1 ELSE SSB_BMX_2
Num(n) == IF n = 1 THEN "1" ELSE "2"

\* a variant that prints whether or not the console is enabled
Serial_write_always(enabled, lines) == lines
\* Serial_write(str): prints only when the serial console is enabled
Serial_write(enabled, lines) == IF enabled THEN lines ELSE <<>>

(* ---------------------------------------------------------------------- *)
(* Real-time clock                                                         *)
(* ---------------------------------------------------------------------- *)
\* rtc.now() after the clock chip ran on for adv days (capped by MaxDay)
ClockAfter(c, adv) ==
    [c EXCEPT !.day = IF c.day + adv > MaxDay THEN MaxDay ELSE c.day + adv]

\* rtc_timestamp(): the ISO text of now; the model's clock has a year and a
\* day count only
TimestampText(t) == FmtD(t.year) \o <<"-">> \o Fmt0D(t.day, 2)

YearValid(y) == y >= 2022 /\ y <= 2031

(* ---------------------------------------------------------------------- *)
(* One-wire temperature probe                                              *)
(* ---------------------------------------------------------------------- *)
\* A float compared with a double literal: the float is widened, and a
\* literal that is no binary fraction (no multiple of 1/16 here) equals no
\* float at all.
Dyadic(d) == d.v % (Unit \div 16) = 0
FNeDouble(f, d) == IF Dyadic(d) THEN f.v # d.v ELSE TRUE

\* unsigned int raw = (data[1] << 8) | data[0]; shifted by the resolution
\* (a 16-bit value shifted by at most 3 stays within the 32-bit unsigned)
PadRaw(pad) ==
    IF pad.cfg = 0 THEN pad.raw * 8
    ELSE IF pad.cfg = 32 THEN pad.raw * 4
    ELSE IF pad.cfg = 64 THEN pad.raw * 2
    ELSE pad.raw

\* getDSTempByAddr(): [reading, valid] from one scratchpad read
getDSTempByAddr(pad) ==
    IF ~pad.crc THEN [reading |-> F(0), valid |-> FALSE]
    ELSE LET t == F(PadRaw(pad) * (Unit \div 16))
             r == GateT(t)
         IN  IF FNeDouble(r, QC_ERR_T)
             THEN [reading |-> r, valid |-> TRUE]
             ELSE [reading |-> QC_ERR_P, valid |-> FALSE]

\* getDSTemp(): one read, and a second one when the first was not valid
getDSTemp(pads) ==
    LET r1 == getDSTempByAddr(pads[1])
    IN  IF r1.valid THEN r1 ELSE getDSTempByAddr(pads[2])

(* ---------------------------------------------------------------------- *)
(* Bosch sensor identification and boot probing                            *)
(* ---------------------------------------------------------------------- *)
KnownChipId(id) == id \in {BMP280_CHIP_ID, BMP388_CHIP_ID, BME280_BMP390_CHIP_ID}

\* one register read: st is "err" (endTransmission error), "norf"
\* (requestFrom returned no byte) or "ok" with the byte read
\* a variant that takes any byte read for a chip id
StageHit_anybyte(s) == s.st = "ok"
StageHit(s) == s.st = "ok" /\ KnownChipId(s.id)

\* get_Bosch_ChipID(): register 0x00 first, then register 0xD0; regs lists
\* the registers a read was started on
get_Bosch_ChipID(s1, s2) ==
    IF StageHit(s1) THEN [id |-> s1.id, regs |-> <<0>>]
    ELSE IF StageHit(s2) THEN [id |-> s2.id, regs |-> <<0, 208>>]
    ELSE [id |-> 0, regs |-> <<0, 208>>]

Began(d, name, addr, ok) == [d EXCEPT ![name] = [addr |-> addr, ok |-> ok]]

\* a variant that tries the BMP390 handshake before the BME280 one
BmxInitSlot_bm3first(n, id, hs, d) ==
    LET a    == BmxAddress(n)
        bme  == IF n = 1 THEN "bme1" ELSE "bme2"
        absent(dd, tr) == [exists |-> FALSE, type |-> BMX_TYPE_UNKNOWN,
                           bit |-> SSB_BMX(n), drv |-> dd, tried |-> tr]
        found(t, dd, tr) == [exists |-> TRUE, type |-> t, bit |-> 0, drv |-> dd,
                             tried |-> tr]
    IN  IF id = BMP280_CHIP_ID THEN
            IF hs.bmp THEN found(BMX_TYPE_BMP280, Began(d, "bmp1", a, TRUE), <<"bmp1">>)
            ELSE absent(Began(d, "bmp1", a, FALSE), <<"bmp1">>)
        ELSE IF id = BME280_BMP390_CHIP_ID THEN
            IF hs.bm3 THEN found(BMX_TYPE_BMP390, Began(d, "bm31", a, TRUE), <<"bm31">>)
            ELSE IF hs.bme
                 THEN found(BMX_TYPE_BME280,
                            Began(Began(d, "bm31", a, FALSE), bme, a, TRUE),
                            <<"bm31", bme>>)
                 ELSE absent(Began(Began(d, "bm31", a, FALSE), bme, a, FALSE),
                             <<"bm31", bme>>)
        ELSE IF id = BMP388_CHIP_ID THEN
            IF hs.bm3 THEN found(BMX_TYPE_BMP388, Began(d, "bm31", a, TRUE), <<"bm31">>)
            ELSE absent(Began(d, "bm31", a, FALSE), <<"bm31">>)
        ELSE [exists |-> FALSE, type |-> BMX_TYPE_UNKNOWN, bit |-> 0, drv |-> d,
              tried |-> <<>>]

\* bmx_initialize(), the switch of one slot.  hs gives the outcome of each
\* driver handshake, tried the begin() calls made, in order.  The second
\* slot probes with bmp1 and bm31.
BmxInitSlot(n, id, hs, d) ==
    LET a    == BmxAddress(n)
        bmp  == "bmp1"
        bme  == IF n = 1 THEN "bme1" ELSE "bme2"
        bm3  == "bm31"
        absent(dd, tr) == [exists |-> FALSE, type |-> BMX_TYPE_UNKNOWN,
                           bit |-> SSB_BMX(n), drv |-> dd, tried |-> tr]
        found(t, dd, tr) == [exists |-> TRUE, type |-> t, bit |-> 0, drv |-> dd,
                             tried |-> tr]
    IN  IF id = BMP280_CHIP_ID THEN
            IF hs.bmp THEN found(BMX_TYPE_BMP280, Began(d, bmp, a, TRUE), <<bmp>>)
            ELSE absent(Began(d, bmp, a, FALSE), <<bmp>>)
        ELSE IF id = BME280_BMP390_CHIP_ID THEN
            IF hs.bme THEN found(BMX_TYPE_BME280, Began(d, bme, a, TRUE), <<bme>>)
            ELSE IF hs.bm3
                 THEN found(BMX_TYPE_BMP390,
                            Began(Began(d, bme, a, FALSE), bm3, a, TRUE),
                            <<bme, bm3>>)
                 ELSE absent(Began(Began(d, bme, a, FALSE), bm3, a, FALSE),
                             <<bme, bm3>>)
        ELSE IF id = BMP388_CHIP_ID THEN
            IF hs.bm3 THEN found(BMX_TYPE_BMP388, Began(d, bm3, a, TRUE), <<bm3>>)
            ELSE absent(Began(d, bm3, a, FALSE), <<bm3>>)
        ELSE [exists |-> FALSE, type |-> BMX_TYPE_UNKNOWN, bit |-> 0, drv |-> d,
              tried |-> <<>>]

(* ---------------------------------------------------------------------- *)
(* The environment's answers: sensor readings, boards                      *)
(* ---------------------------------------------------------------------- *)
GoodPad == [crc |-> TRUE, raw |-> 401, cfg |-> 96]
BadCrcPad == [crc |-> FALSE, raw |-> 401, cfg |-> 96]
\* 85.0 deg C: the probe's power-on value
HotPad == [crc |-> TRUE, raw |-> 1360, cfg |-> 96]
\* -10.125 deg C as the probe encodes it (16-bit two's complement)
NegPad == [crc |-> TRUE, raw |-> 65374, cfg |-> 96]
\* 9-bit resolution, 25.0 deg C in the upper bits
LowResPad == [crc |-> TRUE, raw |-> 50, cfg |-> 0]

BaseBmx == [p |-> F(10132500), t |-> F(225000), h |-> F(450000)]
BaseIn == [win |-> WinConst(512), bmx |-> <<BaseBmx, BaseBmx>>,
           mcp |-> F(225000), pads |-> <<GoodPad, GoodPad>>, vraw |-> 574,
           open |-> TRUE, adv |-> 0]

ObsBmxAlts == {[BaseBmx EXCEPT !.p = NaN], [BaseBmx EXCEPT !.p = F(2999900)],
               [BaseBmx EXCEPT !.t = NaN], [BaseBmx EXCEPT !.t = F(-55000)],
               [BaseBmx EXCEPT !.t = F(600100)], [BaseBmx EXCEPT !.h = NaN],
               [BaseBmx EXCEPT !.h = F(1000100)]}
ObsMcpAlts == {NaN, F(-400100), F(-5000)}
ObsPadAlts == {<<BadCrcPad, GoodPad>>, <<BadCrcPad, BadCrcPad>>,
               <<HotPad, HotPad>>, <<NegPad, NegPad>>, <<LowResPad, GoodPad>>}
ObsVrawAlts == {0, 1023}

\* The answers one OBS_Do call may get: the base answers with one of them
\* varied; a sensor that is not read gets no varied answer.
ObsInputs(ex, mcp_ex, dsf) ==
    {BaseIn}
    \cup {[BaseIn EXCEPT !.win = w] : w \in ObsWindows}
    \cup {[BaseIn EXCEPT !.open = FALSE], [BaseIn EXCEPT !.adv = 1]}
    \cup {[BaseIn EXCEPT !.vraw = v] : v \in ObsVrawAlts}
    \cup (IF ex[1] THEN {[BaseIn EXCEPT !.bmx[1] = r] : r \in ObsBmxAlts} ELSE {})
    \cup (IF ex[2] THEN {[BaseIn EXCEPT !.bmx[2] = r] : r \in ObsBmxAlts} ELSE {})
    \cup (IF mcp_ex THEN {[BaseIn EXCEPT !.mcp = r] : r \in ObsMcpAlts} ELSE {})
    \cup (IF dsf THEN {[BaseIn EXCEPT !.pads = r] : r \in ObsPadAlts} ELSE {})

Stage(st, id) == [st |-> st, id |-> id]
Hs(bmp, bme, bm3) == [bmp |-> bmp, bme |-> bme, bm3 |-> bm3]
SlotEnv(s1, s2, hs) == [s1 |-> s1, s2 |-> s2, hs |-> hs]
\* what a slot may hold at boot: nothing, or a chip that answers one of the
\* two identity registers, with each outcome of the driver handshakes
SlotEmpty == SlotEnv(Stage("err", 0), Stage("err", 0), Hs(FALSE, FALSE, FALSE))
SlotBMP280 == SlotEnv(Stage("ok", 0), Stage("ok", BMP280_CHIP_ID),
                      Hs(TRUE, FALSE, FALSE))
SlotBME280 == SlotEnv(Stage("ok", 0), Stage("ok", BME280_BMP390_CHIP_ID),
                      Hs(FALSE, TRUE, FALSE))
SlotBMP390 == SlotEnv(Stage("ok", BME280_BMP390_CHIP_ID), Stage("err", 0),
                      Hs(FALSE, FALSE, TRUE))
SlotBMP388 == SlotEnv(Stage("ok", BMP388_CHIP_ID), Stage("err", 0),
                      Hs(FALSE, FALSE, TRUE))
SlotEnvs == {SlotEmpty, SlotBMP280, SlotBME280, SlotBMP390, SlotBMP388,
             [SlotBMP280 EXCEPT !.hs = Hs(FALSE, FALSE, FALSE)],
             [SlotBME280 EXCEPT !.hs = Hs(FALSE, FALSE, FALSE)],
             [SlotBMP388 EXCEPT !.hs = Hs(FALSE, FALSE, FALSE)],
             [SlotBME280 EXCEPT !.hs = Hs(FALSE, TRUE, TRUE)]}

BaseBoard == [sce_low |-> FALSE, oled |-> TRUE, sd |-> "ok", cf |-> 0,
              rtc |-> "valid", scan |-> <<TRUE, TRUE>>,
              pads |-> <<GoodPad, GoodPad>>,
              bmx |-> <<SlotBME280, SlotBMP280>>, mcp |-> TRUE]

\* The boards a run may boot on: every pair of slot contents on the base
\* board, and the base board with one other part varied.
Boards ==
    {[BaseBoard EXCEPT !.bmx = <<a, b>>] : a \in SlotEnvs, b \in SlotEnvs}
    \cup {[BaseBoard EXCEPT !.sce_low = TRUE], [BaseBoard EXCEPT !.oled = FALSE],
          [BaseBoard EXCEPT !.mcp = FALSE]}
    \cup {[BaseBoard EXCEPT !.sd = x] : x \in {"nf", "mkdir_err"}}
    \cup {[BaseBoard EXCEPT !.cf = x] : x \in {-1, 1}}
    \cup {[BaseBoard EXCEPT !.rtc = x] : x \in {"nobegin", "noi2c", "unset"}}
    \cup {[BaseBoard EXCEPT !.scan = x] : x \in {<<FALSE, TRUE>>, <<FALSE, FALSE>>}}
    \cup {[BaseBoard EXCEPT !.pads = <<BadCrcPad, BadCrcPad>>]}

\* the parts in which a board differs from the base board
BoardDev(b) ==
    Cardinality({k \in {"sce_low", "oled", "sd", "cf", "rtc", "scan", "pads", "mcp"} :
                    b[k] # BaseBoard[k]})
    + Cardinality({n \in {1, 2} : b.bmx[n] # BaseBoard.bmx[n]})

\* a line typed on the console, "YYYY:MM:DD:HH:MM:SS", as strtok_r cuts it:
\* the value atoi gives each of the six tokens, the tokens that are not all
\* digits (text), the first token strtok_r returns NULL for (null; 7 when
\* all six are there), and what reading through that NULL pointer gives
\* (ub): something that is not a digit string, or an empty string
Line(y, mo, d, h, mi, s) ==
    [avail |-> TRUE, y |-> y, mo |-> mo, d |-> d, h |-> h, mi |-> mi, s |-> s,
     text |-> {}, null |-> 7, ub |-> "text"]
NoLine == [avail |-> FALSE, y |-> 0, mo |-> 0, d |-> 0, h |-> 0, mi |-> 0, s |-> 0,
           text |-> {}, null |-> 7, ub |-> "text"]
ConsoleLines == {NoLine, Line(2024, 2, 29, 23, 59, 59), Line(2021, 1, 1, 0, 0, 0),
                 Line(2023, 2, 29, 0, 0, 0)}

NoObs == [called |-> FALSE, log |-> FALSE, skipped |-> FALSE, inp |-> BaseIn,
          reads |-> {}, handed |-> 0, appended |-> 0,
          file |-> <<>>, ssb0 |-> 0]

(* ---------------------------------------------------------------------- *)
(* Presence recheck                                                        *)
(* ---------------------------------------------------------------------- *)
\* The driver object I2C_Check_Sensors initializes for slot n when the
\* address answers and the slot is cached absent.
CheckDriver(n, id) ==
    IF id = BME280_BMP390_CHIP_ID THEN "bmp" \o Num(n)
    ELSE IF id = BME280_BMP390_CHIP_ID THEN "bme" \o Num(n)
    ELSE "bm3" \o Num(n)

CheckOnlineMsg(n, id) ==
    IF id = BME280_BMP390_CHIP_ID THEN "BMP" \o Num(n) \o " ONLINE"
    ELSE IF id = BME280_BMP390_CHIP_ID THEN "BME" \o Num(n) \o " ONLINE"
    ELSE "BM3" \o Num(n) \o " ONLINE"

\* a variant that clears the whole status word when a slot comes back
CheckSlot_wipe(n, id, exists, resp, ok, ssb, d) ==
    IF resp THEN
        IF ~exists THEN
            [exists |-> ok, ssb |-> IF ok THEN 0 ELSE ssb,
             drv |-> Began(d, CheckDriver(n, id), BmxAddress(n), ok),
             began |-> CheckDriver(n, id), reid |-> FALSE,
             out |-> IF ok THEN <<CheckOnlineMsg(n, id)>> ELSE <<>>]
        ELSE [exists |-> exists, ssb |-> ssb, drv |-> d, began |-> "none",
              reid |-> FALSE, out |-> <<>>]
    ELSE
        IF exists THEN [exists |-> FALSE, ssb |-> SetBit(ssb, SSB_BMX(n)),
                        drv |-> d, began |-> "none", reid |-> FALSE,
                        out |-> <<"BMX" \o Num(n) \o " OFFLINE">>]
        ELSE [exists |-> exists, ssb |-> ssb, drv |-> d, began |-> "none",
              reid |-> FALSE, out |-> <<>>]
\* a variant that brings a slot online without turning its bit off
CheckSlot_keepbit(n, id, exists, resp, ok, ssb, d) ==
    IF resp THEN
        IF ~exists THEN
            [exists |-> ok, ssb |-> ssb,
             drv |-> Began(d, CheckDriver(n, id), BmxAddress(n), ok),
             began |-> CheckDriver(n, id), reid |-> FALSE,
             out |-> IF ok THEN <<CheckOnlineMsg(n, id)>> ELSE <<>>]
        ELSE [exists |-> exists, ssb |-> ssb, drv |-> d, began |-> "none",
              reid |-> FALSE, out |-> <<>>]
    ELSE
        IF exists THEN [exists |-> FALSE, ssb |-> SetBit(ssb, SSB_BMX(n)),
                        drv |-> d, began |-> "none", reid |-> FALSE,
                        out |-> <<"BMX" \o Num(n) \o " OFFLINE">>]
        ELSE [exists |-> exists, ssb |-> ssb, drv |-> d, began |-> "none",
              reid |-> FALSE, out |-> <<>>]
\* a variant that reports a silent address on every call, whatever the flag
CheckSlot_unlatched(n, id, exists, resp, ok, ssb, d) ==
    [exists |-> resp /\ exists,
     ssb |-> IF resp THEN ssb ELSE SetBit(ssb, SSB_BMX(n)),
     drv |-> d, began |-> "none", reid |-> FALSE,
     out |-> IF resp THEN <<>> ELSE <<"BMX" \o Num(n) \o " OFFLINE">>]
\* I2C_Check_Sensors(), the block of one slot: resp is I2C_Device_Exist of
\* the slot's address, ok the result of the begin() it may call.
CheckSlot(n, id, exists, resp, ok, ssb, d) ==
    IF resp THEN
        IF ~exists THEN
            IF ok THEN [exists |-> TRUE, ssb |-> ClrBit(ssb, SSB_BMX(n)),
                        drv |-> Began(d, CheckDriver(n, id), BmxAddress(n), TRUE),
                        began |-> CheckDriver(n, id), reid |-> FALSE,
                        out |-> <<CheckOnlineMsg(n, id)>>]
            ELSE [exists |-> FALSE, ssb |-> ssb,
                  drv |-> Began(d, CheckDriver(n, id), BmxAddress(n), FALSE),
                  began |-> CheckDriver(n, id), reid |-> FALSE, out |-> <<>>]
        ELSE [exists |-> exists, ssb |-> ssb, drv |-> d, began |-> "none",
              reid |-> FALSE, out |-> <<>>]
    ELSE
        IF exists THEN [exists |-> FALSE, ssb |-> SetBit(ssb, SSB_BMX(n)),
                        drv |-> d, began |-> "none", reid |-> FALSE,
                        out |-> <<"BMX" \o Num(n) \o " OFFLINE">>]
        ELSE [exists |-> exists, ssb |-> ssb, drv |-> d, began |-> "none",
              reid |-> FALSE, out |-> <<>>]

NoChk == [called |-> FALSE, resp |-> <<FALSE, FALSE>>, ok |-> <<FALSE, FALSE>>,
          was |-> <<FALSE, FALSE>>, began |-> <<"none", "none">>,
          reid |-> <<FALSE, FALSE>>, again |-> FALSE]

NoBoot == [called |-> FALSE, hs |-> <<Hs(FALSE, FALSE, FALSE), Hs(FALSE, FALSE, FALSE)>>,
           tried |-> <<<<>>, <<>>>>]

\* I2C_Check_Sensors()
I2C_Check_Sensors(resp, ok) ==
    LET s1 == CheckSlot(1, BMX_chip_id[1], BMX_exists[1], resp[1], ok[1],
                        SystemStatusBits, drv)
        s2 == CheckSlot(2, BMX_chip_id[2], BMX_exists[2], resp[2], ok[2],
                        s1.ssb, s1.drv)
    IN  /\ BMX_exists' = <<s1.exists, s2.exists>>
        /\ SystemStatusBits' = s2.ssb
        /\ drv' = s2.drv
        /\ outlog' = s1.out \o s2.out
        /\ serial' = Serial_write(SerialConsoleEnabled, s1.out \o s2.out)
        /\ chk' = [called |-> TRUE, resp |-> resp, ok |-> ok, was |-> BMX_exists,
                   began |-> <<s1.began, s2.began>>, reid |-> <<s1.reid, s2.reid>>,
                   again |-> chk.called /\ chk.resp = resp /\ chk.ok = ok]
        /\ obs' = NoObs
        /\ boot' = NoBoot
        /\ msgbuf' = <<>>
        /\ UNCHANGED <<JustPoweredOn, SerialConsoleEnabled, first, SD_exists,
                       cf_ds_type, RTC_valid, RTC_exists, rtc, now, countdown,
                       ds_found, ds_reading, ds_valid, BMX_chip_id, BMX_type,
                       MCP_1_exists>>

(* ---------------------------------------------------------------------- *)
(* Observation                                                             *)
(* ---------------------------------------------------------------------- *)
\* the driver object OBS_Do reads for slot n ("none": no read at all)
ObsDriver(n, id, type) ==
    IF id = BMP280_CHIP_ID THEN "bmp" \o Num(n)
    ELSE IF id = BME280_BMP390_CHIP_ID THEN
        IF type = BMX_TYPE_BMP390 THEN "bm3" \o Num(n)
        ELSE IF type = BMX_TYPE_BME280 THEN "bme" \o Num(n)
        ELSE "none"
    ELSE "bm3" \o Num(n)

\* the locals p, t, h of one slot's block after the driver reads; r is what
\* the drivers return
ObsLocals(n, id, type, r) ==
    IF id = BMP280_CHIP_ID THEN [p |-> r.p, t |-> r.t, h |-> F(0)]
    ELSE IF id = BME280_BMP390_CHIP_ID THEN
        IF type = BMX_TYPE_BMP390 THEN [p |-> r.p, t |-> r.t, h |-> F(0)]
        ELSE IF type = BMX_TYPE_BME280 THEN [p |-> r.p, t |-> r.t, h |-> r.h]
        ELSE [p |-> F(0), t |-> F(0), h |-> F(0)]
    ELSE [p |-> r.p, t |-> r.t, h |-> F(0)]

\* bmxN_pressure, bmxN_temp, bmxN_humid
ObsGated(l) == [p |-> GateP(l.p), t |-> GateT(l.t), h |-> GateRH(l.h)]

\* vbat_get(): raw * 2 * 3.3 / 1024
vbat_get(raw) == F((raw * 2 * 33 * (Unit \div 10)) \div 1024)

Field(k, kind, v, txt) == [key |-> k, kind |-> kind, val |-> v, text |-> txt]

\* a variant with the temperature ahead of the pressure
BmxFields_swapped(n, g) ==
    << Field("bt" \o Num(n), "T", g.t, FmtD_02(g.t)),
       Field("bp" \o Num(n), "P", g.p, FmtU_04(g.p)),
       Field("bh" \o Num(n), "RH", g.h, FmtD_02(g.h)) >>

\* the sprintf of one barometric slot
BmxFields(n, g) ==
    << Field("bp" \o Num(n), "P", g.p, FmtU_04(g.p)),
       Field("bt" \o Num(n), "T", g.t, FmtD_02(g.t)),
       Field("bh" \o Num(n), "RH", g.h, FmtD_02(g.h)) >>

\* The record OBS_Do builds in msgbuf, field by field.  Every field carries
\* its key, the text printed for it and, for a measurement, the value handed
\* to sprintf.
ObsRecord(ex, mcp_ex, dsf, ts, sg, g1, g2, mt, dt, bv, hth) ==
    << Field("at", "ts", F(0), ts), Field("sg", "int", F(sg * Unit), FmtD(sg)) >>
    \o (IF ex[1] THEN BmxFields(1, g1) ELSE <<>>)
    \o (IF ex[2] THEN BmxFields(2, g2) ELSE <<>>)
    \o (IF mcp_ex THEN <<Field("mt1", "T", mt, FmtD_04(mt))>> ELSE <<>>)
    \o (IF dsf THEN <<Field("dt1", "T", dt, FmtD_04(dt))>> ELSE <<>>)
    \o << Field("bv", "V", bv, FmtD_02(bv)),
          Field("hth", "int", F(hth * Unit), FmtD(hth)) >>

\* the record for the inputs in, timestamp t and health bits hth: OBS_Do
\* computes its locals, then formats them
ObsRecordAt(in, t, hth) ==
    CHOOSE rec \in
        {ObsRecord(BMX_exists, MCP_1_exists, ds_found, ts, sg, g1, g2, mcp, ds,
                   batt, hth) :
            ts \in {TimestampText(t)},
            sg \in {s_gauge_median(in.win, cf_ds_type)},
            g1 \in {ObsGated(ObsLocals(1, BMX_chip_id[1], BMX_type[1],
                                       in.bmx[1]))},
            g2 \in {ObsGated(ObsLocals(2, BMX_chip_id[2], BMX_type[2],
                                       in.bmx[2]))},
            mcp \in {GateT(in.mcp)},
            ds \in {IF ds_found THEN getDSTemp(in.pads).reading
                    ELSE ds_reading},
            batt \in {vbat_get(in.vraw)}} : TRUE

\* the log file named from a clock value other than the one just read: the
\* global "now" as it was before rtc_timestamp()
SD_logfile_stale(t) ==
    <<"/", "O", "B", "S", "/">>
    \o FmtD(now.year) \o Fmt0D(now.day, 2) \o <<".", "l", "o", "g">>

\* sprintf (SD_logfile, "%s/%4d%02d%02d.log", SD_obsdir, now.year(), ...):
\* the name of the day's log file (%4d pads a short year with spaces)
SD_logfile(t) ==
    LET y == FmtD(t.year)
    IN  <<"/", "O", "B", "S", "/">>
        \o [i \in 1..(4 - Len(y)) |-> " "] \o y
        \o Fmt0D(t.day, 2) \o <<".", "l", "o", "g">>

\* a variant that resets the whole status word after a successful write
SD_LogObservation_reset(sd, valid, t, open, ssb) ==
    IF ~sd \/ ~valid THEN [ssb |-> ssb, appended |-> 0, file |-> <<>>]
    ELSE IF open THEN [ssb |-> 0, appended |-> 1, file |-> SD_logfile(t)]
    ELSE [ssb |-> SetBit(ssb, SSB_SD), appended |-> 0, file |-> SD_logfile(t)]
\* SD_LogObservation that reports nothing when the file cannot be opened
SD_LogObservation_quiet(sd, valid, t, open, ssb) ==
    IF ~sd \/ ~valid THEN [ssb |-> ssb, appended |-> 0, file |-> <<>>]
    ELSE IF open THEN [ssb |-> ClrBit(ssb, SSB_SD), appended |-> 1,
                       file |-> SD_logfile(t)]
    ELSE [ssb |-> ssb, appended |-> 0, file |-> SD_logfile(t)]

\* SD_LogObservation(): [ssb, appended, file]
SD_LogObservation(sd, valid, t, open, ssb) ==
    IF ~sd \/ ~valid THEN [ssb |-> ssb, appended |-> 0, file |-> <<>>]
    ELSE IF open THEN [ssb |-> ClrBit(ssb, SSB_SD), appended |-> 1,
                       file |-> SD_logfile(t)]
    ELSE [ssb |-> SetBit(ssb, SSB_SD), appended |-> 0, file |-> SD_logfile(t)]

\* a variant that serializes the status bits after the write to the log
ObsRecordFor_late(in, t) ==
    ObsRecordAt(in, t, SD_LogObservation(SD_exists, RTC_valid, t, in.open,
                                         SystemStatusBits).ssb)

\* the record for the inputs in, in the current state
ObsRecordFor(in, t) == ObsRecordAt(in, t, SystemStatusBits)

SD_LogMsg(sd, valid, open) ==
    IF ~sd \/ ~valid THEN <<>>
    ELSE IF open THEN <<"SD_logfile", "OBS Logged to SD">>
    ELSE <<"SD_logfile", "OBS Open Log Err">>

\* OBS_Do(log_obs), the safety check failing: a diagnostic and return
OBS_Skip(log_obs, in) ==
        /\ outlog' = <<"OBS_Do: Time NV">>
        /\ serial' = Serial_write(SerialConsoleEnabled, <<"OBS_Do: Time NV">>)
        /\ obs' = [called |-> TRUE, log |-> log_obs, skipped |-> TRUE, inp |-> in,
                   reads |-> {}, handed |-> 0, appended |-> 0, file |-> <<>>,
                   ssb0 |-> SystemStatusBits]
        /\ msgbuf' = <<>>
        /\ chk' = NoChk
        /\ boot' = NoBoot
        /\ UNCHANGED <<SystemStatusBits, JustPoweredOn, SerialConsoleEnabled,
                       first, SD_exists, cf_ds_type, RTC_valid, RTC_exists, rtc,
                       now, countdown, ds_found, ds_reading, ds_valid,
                       BMX_chip_id, BMX_type, BMX_exists, MCP_1_exists, drv>>

\* OBS_Do(log_obs) past the safety check, with the environment's answers in
OBS_Run(log_obs, in) ==
        LET clk == ClockAfter(rtc, in.adv)
            ds  == getDSTemp(in.pads)
            rec == ObsRecordFor(in, clk)
            sd  == SD_LogObservation(SD_exists, RTC_valid, clk, in.open,
                                     SystemStatusBits)
            o1  == <<"OBS_Do()">> \o (IF log_obs THEN <<"timestamp">> ELSE <<>>)
                   \o (IF log_obs THEN SD_LogMsg(SD_exists, RTC_valid, in.open)
                       ELSE <<>>)
        IN  /\ rtc' = clk
            /\ now' = clk
            /\ msgbuf' = rec
            /\ ds_reading' = IF ds_found THEN ds.reading ELSE ds_reading
            /\ ds_valid' = IF ds_found THEN ds.valid ELSE ds_valid
            /\ SystemStatusBits' = IF log_obs THEN sd.ssb ELSE SystemStatusBits
            /\ outlog' = o1
            /\ serial' = Serial_write(SerialConsoleEnabled, o1 \o <<"msgbuf">>)
            /\ obs' = [called |-> TRUE, log |-> log_obs, skipped |-> FALSE,
                       inp |-> in,
                       reads |-> {"gauge", "vbat"}
                           \cup {ObsDriver(n, BMX_chip_id[n], BMX_type[n]) :
                                   n \in {m \in Slots : BMX_exists[m]}}
                           \cup (IF MCP_1_exists THEN {"mcp1"} ELSE {})
                           \cup (IF ds_found THEN {"ds"} ELSE {}),
                       handed |-> IF log_obs THEN 1 ELSE 0,
                       appended |-> IF log_obs THEN sd.appended ELSE 0,
                       file |-> IF log_obs THEN sd.file ELSE <<>>,
                       ssb0 |-> SystemStatusBits]
            /\ chk' = NoChk
            /\ boot' = NoBoot
            /\ UNCHANGED <<JustPoweredOn, SerialConsoleEnabled, first, SD_exists,
                           cf_ds_type, RTC_valid, RTC_exists, countdown, ds_found,
                           BMX_chip_id, BMX_type, BMX_exists, MCP_1_exists, drv>>

\* a variant without the safety check
OBS_Do_unguarded(log_obs, in) == OBS_Run(log_obs, in)

\* OBS_Do(log_obs)
OBS_Do(log_obs, in) ==
    IF ~RTC_valid THEN OBS_Skip(log_obs, in) ELSE OBS_Run(log_obs, in)

(* ---------------------------------------------------------------------- *)
(* Console time set                                                        *)
(* ---------------------------------------------------------------------- *)
LeapYear(y) == (y % 400 = 0) \/ ((y % 4 = 0) /\ (y % 100 # 0))

DayValid(y, mo, d) ==
    \/ (d >= 1 /\ d <= 31 /\ mo \in {1, 3, 5, 7, 8, 10, 12})
    \/ (d >= 1 /\ d <= 30 /\ mo \in {4, 6, 9, 11})
    \/ (d >= 1 /\ d <= 28 /\ mo = 2)
    \/ (d = 29 /\ mo = 2 /\ LeapYear(y))

\* isnumeric(token) and atoi(token) of the i-th token of the line
TokNumeric(l, i) == IF i >= l.null THEN l.ub = "empty" ELSE i \notin l.text
TokValue(l, i) == IF i >= l.null THEN 0 ELSE <<l.y, l.mo, l.d, l.h, l.mi, l.s>>[i]

\* the nested field checks of rtc_readserial()
LineValid(l) ==
    LET y  == TokValue(l, 1)
        mo == TokValue(l, 2)
        d  == TokValue(l, 3)
        h  == TokValue(l, 4)
        mi == TokValue(l, 5)
        sc == TokValue(l, 6)
    IN  /\ l.avail
        /\ TokNumeric(l, 1) /\ y # 0 /\ y >= 2022 /\ y <= 2031
        /\ TokNumeric(l, 2) /\ mo # 0 /\ mo >= 1 /\ mo <= 12
        /\ TokNumeric(l, 3) /\ d # 0 /\ DayValid(y, mo, d)
        /\ TokNumeric(l, 4) /\ h >= 0 /\ h <= 23
        /\ TokNumeric(l, 5) /\ mi >= 0 /\ mi <= 59
        /\ TokNumeric(l, 6) /\ sc >= 0 /\ sc <= 59

\* a variant that adjusts the clock from any line, unchecked and unreported
rtc_readserial_unchecked(l, clk, valid) ==
    [ok |-> FALSE, rtc |-> IF l.avail THEN [year |-> TokValue(l, 1), day |-> 0] ELSE clk,
     valid |-> valid, out |-> <<>>]

\* rtc_readserial(): [ok, rtc, valid, out]
rtc_readserial(l, clk, valid) ==
    IF LineValid(l)
    THEN [ok |-> TRUE, rtc |-> [year |-> l.y, day |-> 0], valid |-> TRUE,
          out |-> <<"RTC: Set", "timestamp=">>]
    ELSE [ok |-> FALSE, rtc |-> clk, valid |-> valid,
          out |-> IF l.avail THEN <<"Invalid field">> ELSE <<>>]

(* ---------------------------------------------------------------------- *)
(* setup()                                                                 *)
(* ---------------------------------------------------------------------- *)
\* SD_initialize(): [exists, bit]
SD_initialize(sd) ==
    IF sd = "nf" THEN [exists |-> FALSE, bit |-> SSB_SD]
    ELSE IF sd = "mkdir_err" THEN [exists |-> TRUE, bit |-> SSB_SD]
    ELSE [exists |-> TRUE, bit |-> 0]

\* a variant that trusts whatever year a clock chip that was found reports
rtc_initialize_anyyear(r, year) ==
    IF r = "nobegin" \/ r = "noi2c"
    THEN [exists |-> FALSE, valid |-> FALSE, bit |-> SSB_RTC]
    ELSE [exists |-> TRUE, valid |-> TRUE, bit |-> 0]

\* rtc_initialize(): [exists, valid, bit]; year is what the clock chip reports
rtc_initialize(r, year) ==
    IF r = "nobegin" \/ r = "noi2c"
    THEN [exists |-> FALSE, valid |-> FALSE, bit |-> SSB_RTC]
    ELSE [exists |-> TRUE, valid |-> YearValid(year), bit |-> 0]

\* dallas_sensor_init(): Scan1WireBus(), one retry, then a first reading
dallas_sensor_init(scan, pads) ==
    LET found == scan[1] \/ scan[2]
    IN  IF found
        THEN [found |-> TRUE, bit |-> 0, reading |-> getDSTemp(pads).reading,
              valid |-> getDSTemp(pads).valid]
        ELSE [found |-> FALSE, bit |-> SSB_DS_1, reading |-> F(0),
              valid |-> FALSE]

\* mcp9808_initialize(): [exists, bit]
mcp9808_initialize(ok) ==
    IF ok THEN [exists |-> TRUE, bit |-> 0] ELSE [exists |-> FALSE, bit |-> SSB_MCP_1]

BoardYear(r) == IF r = "valid" THEN 2024 ELSE 2000

NoDrv == [d \in Drivers |-> [addr |-> 0, ok |-> FALSE]]

\* what setup() leaves on board b: the globals it assigns, ssb0 and cf0
\* being SystemStatusBits and cf_ds_type as they were before
BootOf(b, ssb0, cf0) ==
    LET sd   == SD_initialize(b.sd)
        clk  == [year |-> BoardYear(b.rtc), day |-> 0]
        rt   == rtc_initialize(b.rtc, clk.year)
        ds   == dallas_sensor_init(b.scan, b.pads)
        id1  == get_Bosch_ChipID(b.bmx[1].s1, b.bmx[1].s2).id
        id2  == get_Bosch_ChipID(b.bmx[2].s1, b.bmx[2].s2).id
        x1   == BmxInitSlot(1, id1, b.bmx[1].hs, NoDrv)
        x2   == BmxInitSlot(2, id2, b.bmx[2].hs, x1.drv)
        mcp  == mcp9808_initialize(b.mcp)
    IN  [sce |-> b.sce_low,
         sd_exists |-> sd.exists,
         cf |-> IF sd.exists /\ b.cf >= 0 THEN b.cf ELSE cf0,
         rtc_exists |-> rt.exists,
         rtc_valid |-> rt.valid,
         clk |-> clk,
         ds_found |-> ds.found,
         ds_reading |-> ds.reading,
         ds_valid |-> ds.valid,
         chip_id |-> <<id1, id2>>,
         type |-> <<x1.type, x2.type>>,
         exists |-> <<x1.exists, x2.exists>>,
         drv |-> x2.drv,
         tried |-> <<x1.tried, x2.tried>>,
         mcp_exists |-> mcp.exists,
         ssb |-> SetBit(SetBit(SetBit(SetBit(SetBit(SetBit(SetBit(
                     ssb0, IF b.oled THEN 0 ELSE SSB_OLED),
                     sd.bit), rt.bit), ds.bit), x1.bit), x2.bit), mcp.bit)]

Setup ==
    /\ pc = "setup"
    /\ \E b \in {x \in Boards : BoardDev(x) <= MaxDev} :
        LET s == BootOf(b, SystemStatusBits, cf_ds_type)
        IN  /\ dev' = BoardDev(b)
            /\ SerialConsoleEnabled' = s.sce
            /\ SD_exists' = s.sd_exists
            /\ cf_ds_type' = s.cf
            /\ RTC_exists' = s.rtc_exists
            /\ RTC_valid' = s.rtc_valid
            /\ rtc' = s.clk
            /\ now' = s.clk
            /\ ds_found' = s.ds_found
            /\ ds_reading' = s.ds_reading
            /\ ds_valid' = s.ds_valid
            /\ BMX_chip_id' = s.chip_id
            /\ BMX_type' = s.type
            /\ BMX_exists' = s.exists
            /\ drv' = s.drv
            /\ boot' = [called |-> TRUE, hs |-> <<b.bmx[1].hs, b.bmx[2].hs>>,
                        tried |-> s.tried]
            /\ MCP_1_exists' = s.mcp_exists
            /\ SystemStatusBits' = s.ssb
    /\ pc' = "loop"
    /\ outlog' = <<"setup">>
    /\ serial' = <<>>
    /\ msgbuf' = <<>>
    /\ obs' = NoObs
    /\ chk' = NoChk
    /\ UNCHANGED <<JustPoweredOn, first, countdown, fin, fout>>

(* ---------------------------------------------------------------------- *)
(* loop()                                                                  *)
(* ---------------------------------------------------------------------- *)
\* what a step that does not run OBS_Do or I2C_Check_Sensors leaves of them
Quiet == /\ obs' = NoObs
         /\ chk' = NoChk
         /\ boot' = NoBoot
         /\ msgbuf' = <<>>

\* the answers I2C_Check_Sensors may get: a handshake result is drawn only
\* where a handshake is attempted
CheckAnswers ==
    {a \in [resp : BOOLEAN \X BOOLEAN, ok : BOOLEAN \X BOOLEAN] :
        \A n \in Slots : (~a.resp[n] \/ BMX_exists[n]) => a.ok[n]}
\* nominal: every slot answers as it is cached, or as it answered the
\* call just before
CheckDev(a) ==
    IF a.resp = BMX_exists \/ (chk.called /\ a.resp = chk.resp /\ a.ok = chk.ok)
    THEN 0 ELSE 1
\* nominal: the base answers
ObsDev(in) == IF in = BaseIn THEN 0 ELSE 1
\* the environment departs from the nominal answers within its budget
Departs(k) == dev + k <= MaxDev /\ dev' = dev + k

\* a variant that returns from loop() after the time was set
AfterTimeSet_return(ok) == "loop"
\* after rtc_readserial() in the await-time branch: while (true) delay(1000)
\* when it returned true, else loop() returns and is called again
AfterTimeSet(ok) == IF ok THEN "halt" ELSE "loop"

\* RTC not set: ask for the time; a good line sets the clock and halts
AwaitTime ==
    /\ pc = "loop"
    /\ ~RTC_valid
    /\ \E pin_low \in BOOLEAN, l \in ConsoleLines :
        LET r == rtc_readserial(l, rtc, RTC_valid)
            o == (IF first THEN <<"SET RTC ENTER:", "YYYY:MM:DD:HH:MM:SS">>
                  ELSE <<>>) \o r.out
                 \o (IF r.ok THEN <<"!!! Press Reset !!!">> ELSE <<>>)
            en == IF first /\ ~pin_low THEN TRUE ELSE SerialConsoleEnabled
        IN  /\ SerialConsoleEnabled' = en
            /\ first' = FALSE
            /\ rtc' = r.rtc
            /\ now' = IF r.ok THEN r.rtc ELSE now
            /\ RTC_valid' = r.valid
            /\ outlog' = o
            /\ serial' = Serial_write(en, o)
            /\ pc' = AfterTimeSet(r.ok)
    /\ Quiet
    /\ UNCHANGED <<SystemStatusBits, JustPoweredOn, SD_exists, cf_ds_type,
                   RTC_exists, countdown, ds_found, ds_reading, ds_valid,
                   BMX_chip_id, BMX_type, BMX_exists, MCP_1_exists, drv, dev, fin, fout>>

\* a variant that ignores the countdown
Calibrating_always(c) == TRUE
\* the countdown's part of the calibration branch's condition
Calibrating(c) == c # 0

\* calibration mode (jumper set, countdown running): presence recheck; the
\* iterations followed are the first MaxCalib and the last CalTail
Cal_Check ==
    /\ pc = "loop"
    /\ RTC_valid
    /\ Calibrating(countdown)
    /\ CountdownInit - countdown < MaxCalib \/ countdown <= CalTail
    /\ \E a \in CheckAnswers : Departs(CheckDev(a)) /\ I2C_Check_Sensors(a.resp, a.ok)
    /\ pc' = IF countdown % 60 = 0 THEN "cal_obs" ELSE "cal_mon"
    /\ UNCHANGED <<fin, fout>>

\* every minute of calibration mode: OBS_Do(false)
Cal_Obs ==
    /\ pc = "cal_obs"
    /\ \E in \in ObsInputs(BMX_exists, MCP_1_exists, ds_found) :
        Departs(ObsDev(in)) /\ OBS_Do(FALSE, in)
    /\ pc' = "cal_no"
    /\ UNCHANGED <<fin, fout>>

\* a variant that counts from the boundary the clock is on
seconds_to_next_obs_mod(t) == (900 - (t % 900)) % 900
\* seconds_to_next_obs(), t being now.unixtime()
seconds_to_next_obs(t) == 900 - (t % 900)

\* "NO:%ds", seconds_to_next_obs(): reads the clock
Cal_NextObs ==
    /\ pc = "cal_no"
    /\ now' = rtc
    /\ outlog' = <<"NO:%ds">>
    /\ serial' = Serial_write(SerialConsoleEnabled, <<"NO:%ds">>)
    /\ pc' = "cal_mon"
    /\ Quiet
    /\ UNCHANGED <<SystemStatusBits, JustPoweredOn, SerialConsoleEnabled, first,
                   SD_exists, cf_ds_type, RTC_valid, RTC_exists, rtc, countdown,
                   ds_found, ds_reading, ds_valid, BMX_chip_id, BMX_type,
                   BMX_exists, MCP_1_exists, drv, dev, fin, fout>>

\* the rest of a calibration iteration: StationMonitor() or the short status
\* line, console input, countdown--
Cal_Monitor ==
    /\ pc = "cal_mon"
    /\ \E pads \in {<<GoodPad, GoodPad>>, <<BadCrcPad, BadCrcPad>>},
          l \in ConsoleLines :
        LET mon == BMX_exists[1] \/ BMX_exists[2]
            ds  == getDSTemp(pads)
            rd  == ~mon /\ ds_found
            r   == rtc_readserial(l, rtc, RTC_valid)
            o   == (IF mon THEN <<>> ELSE <<"S:%3d T:%d.%02d %d.%02d %04X">>)
                   \o r.out
            sm  == IF mon THEN <<"timestamp", "line1", "line2", "line3">> ELSE <<>>
        IN  /\ (rd \/ pads = <<GoodPad, GoodPad>>)
            /\ Departs((IF pads = <<GoodPad, GoodPad>> THEN 0 ELSE 1)
                       + (IF l = NoLine THEN 0 ELSE 1))
            /\ ds_reading' = IF rd THEN ds.reading ELSE ds_reading
            /\ ds_valid' = IF rd THEN ds.valid ELSE ds_valid
            /\ rtc' = r.rtc
            /\ now' = IF r.ok \/ mon THEN r.rtc ELSE now
            /\ RTC_valid' = r.valid
            /\ outlog' = o
            /\ serial' = Serial_write(SerialConsoleEnabled, sm \o o)
    /\ countdown' = countdown - 1
    /\ pc' = "loop"
    /\ Quiet
    /\ UNCHANGED <<SystemStatusBits, JustPoweredOn, SerialConsoleEnabled, first,
                   SD_exists, cf_ds_type, RTC_exists, ds_found, BMX_chip_id,
                   BMX_type, BMX_exists, MCP_1_exists, drv, fin, fout>>

\* normal operation: presence recheck
Norm_Check ==
    /\ pc = "loop"
    /\ RTC_valid
    /\ \E a \in CheckAnswers : Departs(CheckDev(a)) /\ I2C_Check_Sensors(a.resp, a.ok)
    /\ pc' = "n_obs"
    /\ UNCHANGED <<fin, fout>>

\* normal operation: OBS_Do(true)
Norm_Obs ==
    /\ pc = "n_obs"
    /\ \E in \in ObsInputs(BMX_exists, MCP_1_exists, ds_found) :
        Departs(ObsDev(in)) /\ OBS_Do(TRUE, in)
    /\ pc' = "n_jpo"
    /\ UNCHANGED <<fin, fout>>

\* a variant that leaves the power-on bit alone
JPO_ClearBits_keeppwr ==
    /\ JustPoweredOn' = FALSE
    /\ SystemStatusBits' =
           IF JustPoweredOn
           THEN ClrBit(ClrBit(ClrBit(ClrBit(ClrBit(SystemStatusBits,
                    SSB_OLED), SSB_BMX_1), SSB_BMX_2), SSB_MCP_1), SSB_DS_1)
           ELSE SystemStatusBits
\* a variant that stops for good when the storage fault bit is set
JPO_ClearBits_fatal ==
    /\ ~HasBit(SystemStatusBits, SSB_SD)
    /\ JustPoweredOn' = FALSE
    /\ SystemStatusBits' =
           IF JustPoweredOn
           THEN ClrBit(ClrBit(ClrBit(ClrBit(ClrBit(ClrBit(SystemStatusBits,
                    SSB_PWRON), SSB_OLED), SSB_BMX_1), SSB_BMX_2), SSB_MCP_1),
                    SSB_DS_1)
           ELSE SystemStatusBits

\* a variant that clears the whole bit-field
JPO_ClearBits_all ==
    /\ JustPoweredOn' = FALSE
    /\ SystemStatusBits' = IF JustPoweredOn THEN 0 ELSE SystemStatusBits

\* JPO_ClearBits()
JPO_ClearBits ==
    /\ JustPoweredOn' = FALSE
    /\ SystemStatusBits' =
           IF JustPoweredOn
           THEN ClrBit(ClrBit(ClrBit(ClrBit(ClrBit(ClrBit(SystemStatusBits,
                    SSB_PWRON), SSB_OLED), SSB_BMX_1), SSB_BMX_2), SSB_MCP_1),
                    SSB_DS_1)
           ELSE SystemStatusBits

Norm_JPO ==
    /\ pc = "n_jpo"
    /\ JPO_ClearBits
    /\ outlog' = <<"Going to Sleep">>
    /\ serial' = Serial_write(SerialConsoleEnabled, <<"Going to Sleep">>)
    /\ pc' = "n_sleep"
    /\ Quiet
    /\ UNCHANGED <<SerialConsoleEnabled, first, SD_exists, cf_ds_type, RTC_valid,
                   RTC_exists, rtc, now, countdown, ds_found, ds_reading,
                   ds_valid, BMX_chip_id, BMX_type, BMX_exists, MCP_1_exists, drv,
                   dev, fin, fout>>

\* LowPower.sleep(seconds_to_next_obs()*1000): reads the clock, then sleeps
Norm_Sleep ==
    /\ pc = "n_sleep"
    /\ now' = rtc
    /\ \E adv \in {0, 1} : Departs(adv) /\ rtc' = ClockAfter(rtc, adv)
    /\ outlog' = <<"Wakeup">>
    /\ serial' = Serial_write(SerialConsoleEnabled, <<"Wakeup">>)
    /\ pc' = "loop"
    /\ Quiet
    /\ UNCHANGED <<SystemStatusBits, JustPoweredOn, SerialConsoleEnabled, first,
                   SD_exists, cf_ds_type, RTC_valid, RTC_exists, countdown,
                   ds_found, ds_reading, ds_valid, BMX_chip_id, BMX_type,
                   BMX_exists, MCP_1_exists, drv, fin, fout>>

(* ---------------------------------------------------------------------- *)
(* The program                                                             *)
(* ---------------------------------------------------------------------- *)
NoFn == [fn |-> "none", key |-> "none", v |-> F(0), win |-> <<>>, t |-> 0,
         st |-> <<>>, line |-> NoLine]
NoOut == [done |-> FALSE, v |-> F(0), n |-> 0, text |-> <<>>, regs |-> <<>>,
          ok |-> FALSE, clk |-> [year |-> 0, day |-> 0], valid |-> FALSE]

InitProg ==
    /\ pc = "setup"
    /\ SystemStatusBits = SSB_PWRON
    /\ JustPoweredOn = TRUE
    /\ SerialConsoleEnabled = FALSE
    /\ first = TRUE
    /\ SD_exists = FALSE
    /\ cf_ds_type = 0
    /\ RTC_valid = FALSE
    /\ RTC_exists = FALSE
    /\ rtc = [year |-> 2000, day |-> 0]
    /\ now = [year |-> 2000, day |-> 0]
    /\ countdown = CountdownInit
    /\ ds_found = FALSE
    /\ ds_reading = F(0)
    /\ ds_valid = FALSE
    /\ BMX_chip_id = <<0, 0>>
    /\ BMX_type = <<BMX_TYPE_UNKNOWN, BMX_TYPE_UNKNOWN>>
    /\ BMX_exists = <<FALSE, FALSE>>
    /\ MCP_1_exists = FALSE
    /\ drv = NoDrv
    /\ msgbuf = <<>>
    /\ outlog = <<>>
    /\ serial = <<>>
    /\ obs = NoObs
    /\ chk = NoChk
    /\ boot = NoBoot

Init == InitProg /\ dev = 0 /\ fin = NoFn /\ fout = NoOut

Next ==
    \/ Setup
    \/ AwaitTime
    \/ Cal_Check
    \/ Cal_Obs
    \/ Cal_NextObs
    \/ Cal_Monitor
    \/ Norm_Check
    \/ Norm_Obs
    \/ Norm_JPO
    \/ Norm_Sleep

Spec == Init /\ [][Next]_vars


\* The processor keeps running: every step of loop() ends (its delays and the
\* sleep are timed, its bus reads return), and the runtime calls loop() again
\* whenever it returns.  A step that can be taken is taken in the end.
SpecLive == Init /\ [][Next]_vars /\ WF_vars(Next)

\* The end of calibration mode: the loop, CalTail iterations before the
\* countdown runs out, on a board whose boot and earlier iterations got the
\* nominal answers.  Such an iteration leaves the globals as setup() left
\* them, but for the countdown and the lines of StationMonitor().
CalBoards == {BaseBoard, [BaseBoard EXCEPT !.sce_low = TRUE]}

CalState(b, k) ==
    LET s == BootOf(b, SSB_PWRON, 0)
    IN  /\ pc = "loop"
        /\ SystemStatusBits = s.ssb
        /\ JustPoweredOn = TRUE
        /\ SerialConsoleEnabled = s.sce
        /\ first = TRUE
        /\ SD_exists = s.sd_exists
        /\ cf_ds_type = s.cf
        /\ RTC_valid = s.rtc_valid
        /\ RTC_exists = s.rtc_exists
        /\ rtc = s.clk
        /\ now = s.clk
        /\ countdown = k
        /\ ds_found = s.ds_found
        /\ ds_reading = s.ds_reading
        /\ ds_valid = s.ds_valid
        /\ BMX_chip_id = s.chip_id
        /\ BMX_type = s.type
        /\ BMX_exists = s.exists
        /\ MCP_1_exists = s.mcp_exists
        /\ drv = s.drv
        /\ msgbuf = <<>>
        /\ outlog = <<>>
        /\ serial = Serial_write(s.sce, <<"timestamp", "line1", "line2", "line3">>)
        /\ obs = NoObs
        /\ chk = NoChk
        /\ boot = NoBoot

InitCal ==
    /\ \E b \in CalBoards : CalState(b, CalTail) /\ dev = BoardDev(b)
    /\ fin = NoFn
    /\ fout = NoOut

NextCal ==
    \/ Cal_Check
    \/ Cal_Monitor
    \/ Norm_Check
    \/ Norm_Obs
    \/ Norm_JPO
    \/ Norm_Sleep

SpecCal == InitCal /\ [][NextCal]_vars

(* ---------------------------------------------------------------------- *)
(* The operations called on their own                                      *)
(* ---------------------------------------------------------------------- *)
\* OBS_Do called in whatever state the boot left, the clock valid or not
Unit_OBS_Do ==
    /\ pc = "loop"
    /\ \E log_obs \in BOOLEAN, in \in ObsInputs(BMX_exists, MCP_1_exists, ds_found) :
        Departs(ObsDev(in)) /\ OBS_Do(log_obs, in)
    /\ UNCHANGED <<pc, fin, fout>>

Unit_I2C_Check_Sensors ==
    /\ pc = "loop"
    /\ \E a \in CheckAnswers : Departs(CheckDev(a)) /\ I2C_Check_Sensors(a.resp, a.ok)
    /\ UNCHANGED <<pc, fin, fout>>

NextUnit ==
    \/ Setup
    \/ Unit_OBS_Do
    \/ Unit_I2C_Check_Sensors

SpecUnit == Init /\ [][NextUnit]_vars

(* ---------------------------------------------------------------------- *)
(* The pure functions applied to inputs of their own                       *)
(* ---------------------------------------------------------------------- *)
FnIn(fn, key, v, win, t) ==
    [fn |-> fn, key |-> key, v |-> v, win |-> win, t |-> t, st |-> <<>>,
     line |-> NoLine]

\* raw values around each envelope's bounds, the sentinel, zero and NaN
GateValues(min, max) ==
    {NaN, QC_ERR_T, F(0), F(min.v - 100), min, F(min.v + 100),
     F((min.v + max.v) \div 2), F(max.v - 100), max, F(max.v + 100),
     F(max.v * 3)}
GateInputs ==
    {FnIn("gate", "P", v, <<>>, 0) : v \in GateValues(QC_MIN_P, QC_MAX_P)}
    \cup {FnIn("gate", "T", v, <<>>, 0) : v \in GateValues(QC_MIN_T, QC_MAX_T)}
    \cup {FnIn("gate", "RH", v, <<>>, 0) : v \in GateValues(QC_MIN_RH, QC_MAX_RH)}

MedianInputs == {FnIn("median", "sg", F(0), w, t) : w \in FnWindows, t \in {0, 1}}

\* in-envelope values, in hundredths
FmtPressures ==
    {i * 100 + f : i \in {300, 1013, 1099}, f \in {0, 1, 5, 25, 50, 99}} \cup {110000}
FmtTemperatures ==
    {-4000, -3999, -550, -100, -99, -50, -1, 0, 1, 50, 2250, 5999, 6000}
FmtHumidities == {0, 1, 4500, 9999, 10000}
FmtVraws == {0, 1, 574, 1023}
FmtInputs ==
    {FnIn("fmt", k, F(h * 100), <<>>, 0) : k \in {"bp1", "bp2"}, h \in FmtPressures}
    \cup {FnIn("fmt", k, F(h * 100), <<>>, 0) :
            k \in {"bt1", "bt2", "mt1", "dt1"}, h \in FmtTemperatures}
    \cup {FnIn("fmt", k, F(h * 100), <<>>, 0) : k \in {"bh1", "bh2"}, h \in FmtHumidities}
    \cup {FnIn("fmt", "bv", vbat_get(r), <<>>, 0) : r \in FmtVraws}

\* what a read of an identity register may give: a bus error, no byte, or
\* a byte, known or not
Stages ==
    {Stage("err", 0), Stage("norf", 0)}
    \cup {Stage("ok", b) : b \in {0, BMP280_CHIP_ID, BMP388_CHIP_ID,
                                  BME280_BMP390_CHIP_ID, 97, 255}}
ChipIdInputs ==
    {[NoFn EXCEPT !.fn = "chipid", !.st = <<s1, s2>>] : s1 \in Stages, s2 \in Stages}

\* lines for rtc_readserial(): dates around every bound of the year, month
\* and day checks, times around the bounds of the time checks, a full line
\* with one token that is not all digits, and lines that stop after fewer
\* than six tokens (a 31-character line ending in delimiters)
SerialLines ==
    {Line(y, mo, d, 12, 30, 30) : y \in {0, 2021, 2022, 2023, 2024, 2031, 2032},
                                  mo \in {0, 1, 2, 4, 12, 13},
                                  d \in {0, 1, 28, 29, 30, 31, 32}}
    \cup {Line(2024, 2, 29, h, mi, sc) : h \in {0, 23, 24}, mi \in {0, 59, 60},
                                         sc \in {0, 59, 60}}
    \cup {[Line(2024, 2, 29, 23, 59, 59) EXCEPT !.text = {i}] : i \in 1..6}
    \cup {[Line(2024, 2, 29, 0, 0, 0) EXCEPT !.null = i, !.ub = u] :
             i \in 1..6, u \in {"text", "empty"}}
\* t is RTC_valid before the call (0 false, 1 true)
ReadSerialInputs ==
    {[NoFn EXCEPT !.fn = "readserial", !.line = l, !.t = t] :
        l \in SerialLines, t \in {0, 1}}

\* clock values, in unix seconds, on and around quarter-hour boundaries
NextObsInputs ==
    {[NoFn EXCEPT !.fn = "nextobs", !.t = q * 900 + r] :
        q \in {0, 1, 1893456, 2386091}, r \in {0, 1, 2, 449, 450, 898, 899}}

FnInputs == GateInputs \cup MedianInputs \cup FmtInputs \cup ChipIdInputs
            \cup ReadSerialInputs \cup NextObsInputs

\* the field of a record with a given key
FieldOf(rec, key) == rec[CHOOSE i \in DOMAIN rec : rec[i].key = key]

\* the text OBS_Do's sprintf calls give the field key when its value is v
FieldText(key, v) ==
    LET g == [p |-> v, t |-> v, h |-> v]
    IN  FieldOf(ObsRecord(<<TRUE, TRUE>>, TRUE, TRUE,
                          TimestampText([year |-> 2024, day |-> 0]), 0, g, g,
                          v, v, v, 0), key).text

ApplyGate ==
    /\ fin.fn = "gate"
    /\ ~fout.done
    /\ fout' = [NoOut EXCEPT !.done = TRUE,
                             !.v = IF fin.key = "P" THEN GateP(fin.v)
                                   ELSE IF fin.key = "T" THEN GateT(fin.v)
                                   ELSE GateRH(fin.v)]
    /\ UNCHANGED <<progVars, dev, fin>>

ApplyMedian ==
    /\ fin.fn = "median"
    /\ ~fout.done
    /\ fout' = [NoOut EXCEPT !.done = TRUE, !.n = s_gauge_median(fin.win, fin.t)]
    /\ UNCHANGED <<progVars, dev, fin>>

ApplyFmt ==
    /\ fin.fn = "fmt"
    /\ ~fout.done
    /\ fout' = [NoOut EXCEPT !.done = TRUE, !.text = FieldText(fin.key, fin.v)]
    /\ UNCHANGED <<progVars, dev, fin>>

ApplyChipId ==
    /\ fin.fn = "chipid"
    /\ ~fout.done
    /\ fout' = [NoOut EXCEPT !.done = TRUE,
                             !.n = get_Bosch_ChipID(fin.st[1], fin.st[2]).id,
                             !.regs = get_Bosch_ChipID(fin.st[1], fin.st[2]).regs]
    /\ UNCHANGED <<progVars, dev, fin>>

ApplyReadSerial ==
    /\ fin.fn = "readserial"
    /\ ~fout.done
    /\ LET r == rtc_readserial(fin.line, rtc, fin.t = 1)
       IN  fout' = [NoOut EXCEPT !.done = TRUE, !.ok = r.ok, !.clk = r.rtc,
                                !.valid = r.valid, !.text = r.out]
    /\ UNCHANGED <<progVars, dev, fin>>

ApplyNextObs ==
    /\ fin.fn = "nextobs"
    /\ ~fout.done
    /\ fout' = [NoOut EXCEPT !.done = TRUE, !.n = seconds_to_next_obs(fin.t)]
    /\ UNCHANGED <<progVars, dev, fin>>

InitFn == InitProg /\ dev = 0 /\ fin \in FnInputs /\ fout = NoOut

NextFn ==
    \/ ApplyGate
    \/ ApplyMedian
    \/ ApplyFmt
    \/ ApplyChipId
    \/ ApplyReadSerial
    \/ ApplyNextObs

SpecFn == InitFn /\ [][NextFn]_vars

(* ---------------------------------------------------------------------- *)
(* Properties                                                              *)
(* ---------------------------------------------------------------------- *)
Range(q) == {q[i] : i \in DOMAIN q}

\* the envelopes and the sentinel as the specification states them
EnvLo(kind) == IF kind = "P" THEN 300 * Unit ELSE IF kind = "T" THEN -40 * Unit ELSE 0
EnvHi(kind) == IF kind = "P" THEN 1100 * Unit ELSE IF kind = "T" THEN 60 * Unit
               ELSE 100 * Unit
Sentinel == F(-9999 * (Unit \div 10))
InEnvelope(kind, v) == ~v.nan /\ EnvLo(kind) <= v.v /\ v.v <= EnvHi(kind)

\* an observation ran to its end in the last step
Observed == obs.called /\ ~obs.skipped
\* slot n was read through a driver in the last observation
SlotRead(n) ==
    Observed /\ BMX_exists[n] /\ ObsDriver(n, BMX_chip_id[n], BMX_type[n]) # "none"

\* C1: every sensor-derived field of an assembled record holds a value inside
\* its kind's envelope or the kind's sentinel, never a NaN; and a raw
\* pressure or temperature a driver returned that is NaN or out of the
\* envelope is in the record as the sentinel.
C1_FieldsAreGated ==
    /\ \A i \in DOMAIN msgbuf :
          msgbuf[i].kind \in {"P", "T", "RH"} =>
              /\ ~msgbuf[i].val.nan
              /\ InEnvelope(msgbuf[i].kind, msgbuf[i].val) \/ msgbuf[i].val = Sentinel
    /\ \A n \in Slots :
          SlotRead(n) =>
              /\ InEnvelope("P", obs.inp.bmx[n].p)
                    \/ FieldOf(msgbuf, "bp" \o Num(n)).val = Sentinel
              /\ InEnvelope("T", obs.inp.bmx[n].t)
                    \/ FieldOf(msgbuf, "bt" \o Num(n)).val = Sentinel
    /\ (Observed /\ MCP_1_exists) =>
          InEnvelope("T", obs.inp.mcp) \/ FieldOf(msgbuf, "mt1").val = Sentinel

\* C1 happens: slot 1 returned NaN for temperature and bt1 holds the sentinel
C1_Witness ==
    /\ SlotRead(1)
    /\ obs.inp.bmx[1].t.nan
    /\ FieldOf(msgbuf, "bt1").val = Sentinel

\* C2: the gate returns the raw value exactly when it is not NaN and lies in
\* the closed envelope of its kind, and the sentinel -999.9 otherwise (the
\* sentinel lies outside every envelope).
C2_GateIffInEnvelope ==
    (fout.done /\ fin.fn = "gate") =>
        /\ ~InEnvelope(fin.key, Sentinel)
        /\ IF InEnvelope(fin.key, fin.v) THEN fout.v = fin.v
           ELSE fout.v = Sentinel

\* C2 happens: a pressure on the upper bound passed unchanged
C2_Witness ==
    /\ fout.done
    /\ fin.fn = "gate"
    /\ fin.key = "P"
    /\ fin.v.v = EnvHi("P")
    /\ fout.v = fin.v

\* C3: the reading s_gauge_median selects from a window of 60 is a member of
\* the window and is the element at 0-based index 29 of the ascending order
\* (at most 29 readings are smaller, at least 30 are not larger).
C3_MedianIsLowerMiddle ==
    (fout.done /\ fin.fn = "median") =>
        LET sc == IF fin.t # 0 THEN 5 ELSE 10
            r  == fout.n \div sc
            w  == fin.win
        IN  /\ fout.n = r * sc
            /\ Len(w) = 60
            /\ \E i \in DOMAIN w : w[i] = r
            /\ Cardinality({i \in DOMAIN w : w[i] < r}) <= 29
            /\ Cardinality({i \in DOMAIN w : w[i] <= r}) >= 30

\* C3 happens: 30 low and 30 high readings, and the low one was selected
C3_Witness ==
    /\ fout.done
    /\ fin.fn = "median"
    /\ fin.win = WinTwo(30, 100, 900, "mix")
    /\ fin.t = 0
    /\ fout.n = 100 * 10

\* C4: a call of OBS_Do with the clock invalid samples nothing, reads no
\* sensor, builds and prints no record, hands nothing to the log file and
\* leaves the health bits and the presence flags as they were; a record only
\* exists in states whose clock is valid.
C4_NoObservationWithoutClock ==
    [][ /\ (obs'.called /\ ~RTC_valid) =>
              /\ obs'.skipped
              /\ obs'.reads = {}
              /\ msgbuf' = <<>>
              /\ "msgbuf" \notin Range(serial')
              /\ obs'.handed = 0
              /\ obs'.appended = 0
              /\ UNCHANGED <<SystemStatusBits, BMX_exists, MCP_1_exists, ds_found>>
        /\ (msgbuf' # <<>>) => RTC_valid'
      ]_vars

\* C4 happens: OBS_Do was called with the clock invalid
C4_Witness ==
    /\ obs.called
    /\ obs.skipped
    /\ ~RTC_valid
    /\ outlog = <<"OBS_Do: Time NV">>

\* C5 as stated: OBS_Do(false) with a valid clock assembles the record and
\* emits it on the console, appends nothing and leaves SSB_SD alone;
\* OBS_Do(true) hands the record to SD_LogObservation exactly once.
C5_RecordAlwaysOnConsole ==
    /\ (Observed /\ ~obs.log) =>
          /\ msgbuf # <<>>
          /\ "msgbuf" \in Range(serial)
          /\ obs.handed = 0
          /\ obs.appended = 0
          /\ HasBit(SystemStatusBits, SSB_SD) = HasBit(obs.ssb0, SSB_SD)
    /\ (Observed /\ obs.log) => obs.handed = 1

\* C5, amended: OBS_Do(false) with a valid clock assembles the record, emits
\* it on the serial console exactly when the serial console is enabled,
\* appends nothing and leaves SSB_SD alone; OBS_Do(true) hands the record to
\* SD_LogObservation exactly once.
C5_RecordOnEnabledConsole ==
    /\ (Observed /\ ~obs.log) =>
          /\ msgbuf # <<>>
          /\ ("msgbuf" \in Range(serial)) <=> SerialConsoleEnabled
          /\ obs.handed = 0
          /\ obs.appended = 0
          /\ HasBit(SystemStatusBits, SSB_SD) = HasBit(obs.ssb0, SSB_SD)
    /\ (Observed /\ obs.log) => obs.handed = 1

\* C5 happens: OBS_Do(false) assembled a record with the console disabled
C5_Witness ==
    /\ Observed
    /\ ~obs.log
    /\ ~SerialConsoleEnabled
    /\ msgbuf # <<>>
    /\ serial = <<>>

\* the keys of a record for the presence flags of the current state
ExpectedKeys ==
    <<"at", "sg">>
    \o (IF BMX_exists[1] THEN <<"bp1", "bt1", "bh1">> ELSE <<>>)
    \o (IF BMX_exists[2] THEN <<"bp2", "bt2", "bh2">> ELSE <<>>)
    \o (IF MCP_1_exists THEN <<"mt1">> ELSE <<>>)
    \o (IF ds_found THEN <<"dt1">> ELSE <<>>)
    \o <<"bv", "hth">>

\* C6: the keys of an assembled record are, in this order, at, sg, the
\* bp/bt/bh group of each present barometric slot, mt1 when the MCP9808 is
\* present, dt1 when a probe was found, bv, hth; an absent part has no key.
C6_KeysInFixedOrder ==
    (msgbuf # <<>>) => [i \in DOMAIN msgbuf |-> msgbuf[i].key] = ExpectedKeys

\* C6 happens: a record assembled with slot 1 absent and slot 2 present
C6_Witness ==
    /\ msgbuf # <<>>
    /\ ~BMX_exists[1]
    /\ BMX_exists[2]
    /\ Len(msgbuf) < Len(<<"at", "sg", "bp1", "bt1", "bh1", "bp2", "bt2", "bh2",
                           "mt1", "dt1", "bv", "hth">>)

\* reading a printed number back
IsDigit(c) == \E d \in 0..9 : DigitChar(d) = c
DigitVal(c) == CHOOSE d \in 0..9 : DigitChar(d) = c
NumVal(q) ==
    LET f[i \in 0..Len(q)] == IF i = 0 THEN 0 ELSE f[i - 1] * 10 + DigitVal(q[i])
    IN  f[Len(q)]
Unsigned(q) == IF q # <<>> /\ q[1] = "-" THEN Tail(q) ELSE q
\* an optional minus sign, digits, a dot and exactly k digits
WellFormed(q, k) ==
    LET b == Unsigned(q)
    IN  /\ Len(b) >= k + 2
        /\ b[Len(b) - k] = "."
        /\ \A i \in DOMAIN b : i # Len(b) - k => IsDigit(b[i])
\* the value of such a text, in units of 10^-k
Scaled(q, k) ==
    LET b == Unsigned(q)
        m == NumVal(SubSeq(b, 1, Len(b) - k - 1) \o SubSeq(b, Len(b) - k + 1, Len(b)))
    IN  IF q[1] = "-" THEN -m ELSE m

\* C7: the bp text of an in-envelope pressure is its integer part, a dot and
\* the four digits of its truncated decimal fraction (1013.25 reads
\* 1013.2500).
C7_PressureText ==
    (fout.done /\ fin.fn = "fmt" /\ fin.key \in {"bp1", "bp2"}) =>
        /\ WellFormed(fout.text, 4)
        /\ Scaled(fout.text, 4) = fin.v.v

\* C8: the text of an in-envelope temperature, humidity or voltage is a
\* well-formed decimal with exactly two fractional digits whose value is the
\* value truncated toward zero to two decimals.
C8_TwoDecimalText ==
    (fout.done /\ fin.fn = "fmt" /\ fin.key \notin {"bp1", "bp2"}) =>
        /\ WellFormed(fout.text, 2)
        /\ Scaled(fout.text, 2) = TruncDiv(fin.v.v, 100)

\* C9: when a present slot's driver returns NaN for temperature, the slot's
\* bt text is a well-formed number equal to the sentinel -999.9 to two
\* decimals, and every other field has the text it would have had with a
\* valid temperature.
C9_NaNTemperatureField ==
    \A n \in Slots :
        (SlotRead(n) /\ obs.inp.bmx[n].t.nan) =>
            LET bt  == "bt" \o Num(n)
                alt == ObsRecordAt([obs.inp EXCEPT !.bmx[n].t = BaseBmx.t], now,
                                   obs.ssb0)
            IN  /\ WellFormed(FieldOf(msgbuf, bt).text, 2)
                /\ Scaled(FieldOf(msgbuf, bt).text, 2) = TruncDiv(Sentinel.v, 100)
                /\ \A i \in DOMAIN msgbuf :
                      msgbuf[i].key # bt => msgbuf[i].text = alt[i].text

\* the driver of a slot's identified variant
VariantDriver(n, id, type) ==
    IF id = BMP280_CHIP_ID THEN "bmp" \o Num(n)
    ELSE IF id = BMP388_CHIP_ID \/ type = BMX_TYPE_BMP390 THEN "bm3" \o Num(n)
    ELSE "bme" \o Num(n)

\* C10: when the recheck finds a slot answering that is cached absent, it
\* initializes the driver of the slot's identified variant, and with the
\* variant unknown (chip id 0) it re-runs the identification first.
C10_RecheckUsesVariantDriver ==
    \A n \in Slots :
        (chk.called /\ chk.resp[n] /\ ~chk.was[n]) =>
            IF BMX_chip_id[n] = 0 THEN chk.reid[n]
            ELSE (BMX_type[n] # BMX_TYPE_UNKNOWN \/ BMX_chip_id[n] # BME280_BMP390_CHIP_ID)
                    => chk.began[n] = VariantDriver(n, BMX_chip_id[n], BMX_type[n])


\* how often message m is among the messages q
Count(q, m) == Cardinality({i \in DOMAIN q : q[i] = m})
OtherSlot(n) == 3 - n
OfflineMsg(n) == "BMX" \o Num(n) \o " OFFLINE"

\* C11: when I2C_Check_Sensors finds the address of slot n not responding
\* while BMX_n_exists is true, the call leaves BMX_n_exists false and
\* SSB_BMX_n set and emits exactly one offline message for the slot; the
\* flag and the bit of the other slot, when that slot answers as it is
\* cached, are as they were before the call.
C11_OfflineTransition ==
    [][\A n \in Slots :
          (chk'.called /\ ~chk'.resp[n] /\ chk'.was[n]) =>
              /\ BMX_exists[n]
              /\ ~BMX_exists'[n]
              /\ HasBit(SystemStatusBits', SSB_BMX(n))
              /\ Count(outlog', OfflineMsg(n)) = 1
              /\ chk'.resp[OtherSlot(n)] = chk'.was[OtherSlot(n)] =>
                    /\ BMX_exists'[OtherSlot(n)] = BMX_exists[OtherSlot(n)]
                    /\ HasBit(SystemStatusBits', SSB_BMX(OtherSlot(n)))
                         = HasBit(SystemStatusBits, SSB_BMX(OtherSlot(n)))]_vars

\* the second slot went offline while the first one stayed present
C11_Witness ==
    /\ chk.called
    /\ ~chk.resp[2] /\ chk.was[2] /\ ~BMX_exists[2]
    /\ chk.resp[1] /\ chk.was[1] /\ BMX_exists[1]
    /\ HasBit(SystemStatusBits, SSB_BMX_2) /\ ~HasBit(SystemStatusBits, SSB_BMX_1)


OnlineMsgs(n) == {"BMP" \o Num(n) \o " ONLINE", "BME" \o Num(n) \o " ONLINE",
                  "BM3" \o Num(n) \o " ONLINE"}
CountIn(q, S) == Cardinality({i \in DOMAIN q : q[i] \in S})

\* C12: when I2C_Check_Sensors finds the address of slot n responding while
\* BMX_n_exists is false, then if the driver initialization it attempts
\* succeeds the call leaves BMX_n_exists true and SSB_BMX_n clear and emits
\* one online message for the slot; if the initialization fails,
\* BMX_n_exists stays false, SSB_BMX_n is as before and no online message
\* for the slot is emitted.
C12_OnlineTransition ==
    [][\A n \in Slots :
          (chk'.called /\ chk'.resp[n] /\ ~chk'.was[n]) =>
              /\ ~BMX_exists[n]
              /\ chk'.began[n] # "none"
              /\ drv'[chk'.began[n]] = [addr |-> BmxAddress(n), ok |-> chk'.ok[n]]
              /\ IF chk'.ok[n]
                 THEN /\ BMX_exists'[n]
                      /\ ~HasBit(SystemStatusBits', SSB_BMX(n))
                      /\ CountIn(outlog', OnlineMsgs(n)) = 1
                 ELSE /\ ~BMX_exists'[n]
                      /\ HasBit(SystemStatusBits', SSB_BMX(n))
                           = HasBit(SystemStatusBits, SSB_BMX(n))
                      /\ CountIn(outlog', OnlineMsgs(n)) = 0]_vars

\* a slot cached absent, its chip identified at boot, came online
C12_Witness ==
    /\ chk.called
    /\ \E n \in Slots :
          /\ chk.resp[n] /\ ~chk.was[n] /\ chk.ok[n]
          /\ BMX_exists[n]
          /\ BMX_chip_id[n] # 0
          /\ outlog # <<>>


\* C13: a call of I2C_Check_Sensors that follows another call directly and
\* gets the same bus responses and the same driver-initialization outcomes
\* emits no message and leaves BMX_1_exists, BMX_2_exists and
\* SystemStatusBits as the first call left them.
C13_RecheckIdempotent ==
    [][(chk.called /\ chk'.called /\ chk'.resp = chk.resp /\ chk'.ok = chk.ok) =>
          /\ chk'.again
          /\ outlog' = <<>>
          /\ serial' = <<>>
          /\ BMX_exists' = BMX_exists
          /\ SystemStatusBits' = SystemStatusBits]_vars

\* the second of two calls with the same answers: the first slot, found at
\* boot, was taken offline by a recheck (the only departure of the run) and
\* the call after it saw the address silent again
C13_Witness ==
    /\ chk.called /\ chk.again
    /\ dev = 1
    /\ ~chk.resp[1] /\ ~BMX_exists[1] /\ BMX_type[1] # BMX_TYPE_UNKNOWN
    /\ HasBit(SystemStatusBits, SSB_BMX_1)


\* C14: when boot probing completes, for either slot: with chip id 0x58 and
\* the BMP280 handshake succeeding the recorded type is BMP280; with chip id
\* 0x60 the BME280 handshake is the first one made, the BMP3XX handshake is
\* made exactly when the BME280 one failed, and the recorded type is BME280
\* when the BME280 handshake succeeded, BMP390 when it failed and the
\* BMP3XX one succeeded.
C14_BootProbingOrder ==
    boot.called =>
        \A n \in Slots :
            LET id == BMX_chip_id[n]
                hs == boot.hs[n]
                tr == boot.tried[n]
            IN  /\ (id = BMP280_CHIP_ID /\ hs.bmp) =>
                      /\ tr \in {<<"bmp1">>, <<"bmp2">>}
                      /\ BMX_exists[n] /\ BMX_type[n] = BMX_TYPE_BMP280
                /\ id = BME280_BMP390_CHIP_ID =>
                      /\ Len(tr) >= 1 /\ tr[1] = "bme" \o Num(n)
                      /\ Len(tr) = (IF hs.bme THEN 1 ELSE 2)
                      /\ Len(tr) = 2 => tr[2] \in {"bm31", "bm32"}
                      /\ hs.bme => BMX_exists[n] /\ BMX_type[n] = BMX_TYPE_BME280
                      /\ (~hs.bme /\ hs.bm3) =>
                            BMX_exists[n] /\ BMX_type[n] = BMX_TYPE_BMP390
                      /\ (~hs.bme /\ ~hs.bm3) => ~BMX_exists[n]

\* boot found in the first slot a 0x60 chip on which both handshakes would
\* succeed, and in the second a 0x60 chip that only the BMP3XX driver accepts
C14_Witness ==
    /\ boot.called
    /\ BMX_chip_id = <<BME280_BMP390_CHIP_ID, BME280_BMP390_CHIP_ID>>
    /\ boot.hs[1].bme /\ boot.hs[1].bm3 /\ BMX_type[1] = BMX_TYPE_BME280
    /\ ~boot.hs[2].bme /\ boot.hs[2].bm3 /\ BMX_type[2] = BMX_TYPE_BMP390
    /\ Len(boot.tried[2]) = 2


\* a register read that gave one of the three known codes
YieldsKnown(s) == s.st = "ok" /\ s.id \in {88, 80, 96}

\* C15: get_Bosch_ChipID returns 0x58, 0x50, 0x60 or 0.  A known code read
\* from register 0x00 is returned without a read of register 0xD0; register
\* 0xD0 is read exactly when the first stage had a bus error, gave no byte
\* or gave an unknown byte; 0 is returned exactly when neither stage yields
\* a known code; a bus error in a stage does not end the probe.
C15_ChipIdTwoStages ==
    (fout.done /\ fin.fn = "chipid") =>
        LET s1 == fin.st[1]
            s2 == fin.st[2]
        IN  /\ fout.n \in {88, 80, 96, 0}
            /\ fout.regs[1] = 0
            /\ YieldsKnown(s1) => fout.n = s1.id /\ fout.regs = <<0>>
            /\ (208 \in Range(fout.regs)) <=> ~YieldsKnown(s1)
            /\ (~YieldsKnown(s1) /\ YieldsKnown(s2)) => fout.n = s2.id
            /\ fout.n = 0 <=> (~YieldsKnown(s1) /\ ~YieldsKnown(s2))

\* a bus error on register 0x00, then 0x58 read from register 0xD0
C15_Witness ==
    /\ fout.done
    /\ fin.fn = "chipid"
    /\ fin.st[1].st = "err"
    /\ fin.st[2] = Stage("ok", BMP280_CHIP_ID)
    /\ fout.n = BMP280_CHIP_ID
    /\ fout.regs = <<0, 208>>


\* C16: when boot probing completes, every barometric slot that is absent
\* has its missing bit set: BMX_n_exists false implies SSB_BMX_n set in
\* SystemStatusBits, whether no chip id matched or every handshake failed.
C16_AbsentSlotHasBit ==
    boot.called =>
        \A n \in Slots : ~BMX_exists[n] => HasBit(SystemStatusBits, SSB_BMX(n))


\* the six startup-only bits
StartupBits == {SSB_PWRON, SSB_OLED, SSB_BMX_1, SSB_BMX_2, SSB_MCP_1, SSB_DS_1}

\* C17: the one-shot transition that clears the startup-only bits is taken
\* only when an observation has been assembled and appended to the log
\* file.  While JustPoweredOn holds no normal cycle has completed, so the
\* only observation that can have been appended is the one of the step
\* before the transition.
C17_ClearOnlyAfterPersisted ==
    [][(JustPoweredOn /\ ~JustPoweredOn') =>
          (obs.called /\ ~obs.skipped /\ obs.appended = 1)]_vars


\* the bit positions of SystemStatusBits
StatusBits == {1, 2, 4, 8, 16, 32, 64, 128, 256, 512, 1024, 2048, 4096, 8192,
               16384, 32768}

\* C18: JPO_ClearBits has an effect at most once per power-on.  Called with
\* JustPoweredOn true it sets JustPoweredOn to false and clears exactly the
\* six startup-only bits, every other bit of SystemStatusBits (SSB_SD and
\* SSB_RTC among them) staying as it was; called with JustPoweredOn false it
\* leaves SystemStatusBits and JustPoweredOn unchanged; and no step of the
\* program makes JustPoweredOn true again.
C18_ClearBitsOnce ==
    [][/\ ~JustPoweredOn => ~JustPoweredOn'
       /\ pc = "n_jpo" =>
             IF JustPoweredOn
             THEN /\ ~JustPoweredOn'
                  /\ \A b \in StatusBits :
                        HasBit(SystemStatusBits', b)
                          = (HasBit(SystemStatusBits, b) /\ b \notin StartupBits)
                  /\ SystemStatusBits' \in 0..SystemStatusBits
             ELSE /\ SystemStatusBits' = SystemStatusBits
                  /\ JustPoweredOn' = JustPoweredOn
       /\ (pc # "n_jpo" /\ JustPoweredOn) => JustPoweredOn']_vars

\* after the first call: the power-on bit is gone, the storage bit stays
C18_Witness ==
    /\ pc = "n_sleep"
    /\ ~JustPoweredOn
    /\ ~HasBit(SystemStatusBits, SSB_PWRON)
    /\ HasBit(SystemStatusBits, SSB_SD)


\* C19: with the clock invalid after boot, every step of loop() is a step
\* of the await-time branch: it runs no recheck and no observation, writes
\* no log file, leaves the countdown, JustPoweredOn and the health bits
\* alone, and ends either back in the await-time state with the clock still
\* invalid or, when the console line set the clock, in the halt; and from
\* the halt no step changes the state.
C19_AwaitTimeThenHalt ==
    [][/\ (pc = "loop" /\ ~RTC_valid) =>
             /\ pc' \in {"loop", "halt"}
             /\ (pc' = "halt") = RTC_valid'
             /\ (pc' = "halt") = (Count(outlog', "RTC: Set") = 1)
             /\ ~obs'.called /\ ~chk'.called /\ msgbuf' = <<>>
             /\ countdown' = countdown
             /\ JustPoweredOn' = JustPoweredOn
             /\ SystemStatusBits' = SystemStatusBits
             /\ BMX_exists' = BMX_exists
       /\ pc # "halt"
       /\ pc' = "halt" => (pc = "loop" /\ ~RTC_valid)]_vars

\* the clock was set from the console and the program sits in the halt,
\* nothing of calibration or normal operation having run
C19_Witness ==
    /\ pc = "halt"
    /\ RTC_valid
    /\ ~first
    /\ rtc.year = 2024
    /\ countdown = CountdownInit
    /\ JustPoweredOn
    /\ Count(outlog, "!!! Press Reset !!!") = 1


\* the step parsed a console line / called rtc.adjust
LineParsed(q) == Count(q, "RTC: Set") + Count(q, "Invalid field") > 0
ClockAdjusted(q) == Count(q, "RTC: Set") = 1

\* C20 as stated: a console line is parsed, and the clock adjusted, only
\* while RTC_valid is false; with RTC_valid true no step parses console
\* input or calls rtc.adjust.
C20_ConsoleOnlyInAwaitTime ==
    [][RTC_valid => (~LineParsed(outlog') /\ rtc'.year = rtc.year)]_vars

\* C20 amended: a console line is parsed, and the clock adjusted, only in
\* the await-time branch (RTC_valid false) or at the end of a calibration
\* iteration (RTC_valid true, countdown not zero); no step of normal
\* operation parses console input or adjusts the clock, and the clock's
\* year changes only where rtc.adjust is reported.
C20_ConsoleInAwaitTimeOrCalibration ==
    [][/\ LineParsed(outlog') =>
             \/ pc = "loop" /\ ~RTC_valid /\ pc' \in {"loop", "halt"}
             \/ pc = "cal_mon" /\ RTC_valid /\ countdown # 0
                  /\ countdown' = countdown - 1
       /\ rtc'.year # rtc.year => (pc # "setup" => ClockAdjusted(outlog'))
       /\ pc \in {"n_obs", "n_jpo", "n_sleep"} =>
             ~LineParsed(outlog') /\ rtc'.year = rtc.year
       /\ (pc = "loop" /\ pc' = "n_obs") =>
             ~LineParsed(outlog') /\ rtc'.year = rtc.year]_vars

\* a calibration iteration with the clock valid set the clock from the
\* console, and the loop goes on
C20_Witness ==
    /\ pc = "loop"
    /\ RTC_valid
    /\ countdown < CountdownInit
    /\ ClockAdjusted(outlog)
    /\ rtc = [year |-> 2024, day |-> 0]


\* C21: the countdown starts at 1800 and stays within 0..1800; a step
\* changes it only by taking one off, and the steps that do are exactly the
\* ends of calibration iterations, which are entered only with the
\* countdown not zero; with the countdown at 0 and the clock valid every
\* pass of loop() takes the normal-operation branch.
C21_CalibrationBounded ==
    [][/\ countdown \in 0..1800
       /\ countdown' \in 0..1800
       /\ countdown' \in {countdown, countdown - 1}
       /\ (countdown' = countdown - 1) = (pc = "cal_mon")
       /\ pc \in {"cal_obs", "cal_no", "cal_mon"} => countdown > 0
       /\ (pc = "loop" /\ RTC_valid /\ countdown = 0) => pc' = "n_obs"]_vars

\* the countdown has run out in this run and the loop, the clock valid,
\* went into normal operation
C21_Witness ==
    /\ countdown = 0
    /\ RTC_valid
    /\ pc = "n_obs"
    /\ chk.called


\* the length of month mo of year y
MonthLength(y, mo) ==
    IF mo \in {4, 6, 9, 11} THEN 30
    ELSE IF mo # 2 THEN 31
    ELSE IF (y % 4 = 0 /\ y % 100 # 0) \/ y % 400 = 0 THEN 29 ELSE 28

\* all six fields of the line are there, are numbers and are in range
AllSixValid(l) ==
    /\ l.avail /\ l.text = {} /\ l.null = 7
    /\ l.y \in 2022..2031
    /\ l.mo \in 1..12
    /\ l.d \in 1..MonthLength(l.y, l.mo)
    /\ l.h \in 0..23
    /\ l.mi \in 0..59
    /\ l.s \in 0..59

\* C22: rtc_readserial adjusts the clock and sets RTC_valid only when all
\* six fields of the line are valid together; for a line with at least one
\* invalid field it returns false, does not adjust the clock and leaves
\* RTC_valid as it was.
C22_TimeSetOnlyFromValidLine ==
    (fout.done /\ fin.fn = "readserial") =>
        IF AllSixValid(fin.line)
        THEN fout.ok /\ fout.valid /\ fout.clk.year = fin.line.y
        ELSE ~fout.ok /\ fout.clk = rtc /\ fout.valid = (fin.t = 1)


\* C23: for a clock value t, seconds_to_next_obs returns s with
\* 1 <= s <= 900 and t + s a multiple of 900; it never returns 0, and on a
\* quarter-hour boundary it returns 900.
C23_SecondsToNextObs ==
    (fout.done /\ fin.fn = "nextobs") =>
        /\ fout.n >= 1 /\ fout.n <= 900
        /\ (fin.t + fout.n) % 900 = 0
        /\ fin.t % 900 = 0 => fout.n = 900

\* a clock on a quarter-hour boundary in 2024
C23_Witness ==
    /\ fout.done
    /\ fin.fn = "nextobs"
    /\ fin.t = 1893456 * 900
    /\ fout.n = 900


\* OBS_Do(true) ran with a valid clock while persistence was unavailable: the
\* SD card was not found at boot, or the log file could not be opened
Unpersisted ==
    /\ Observed
    /\ obs.log
    /\ ~SD_exists \/ ~obs.inp.open

\* C24, as stated: when persistence is unavailable during OBS_Do(true) with a
\* valid clock, SSB_SD is set after the call, nothing is appended, the record
\* is still assembled and emitted on the console, and the record is handed to
\* SD_LogObservation once only (no retry, no queue).
C24_UnpersistedStillOnConsole ==
    Unpersisted =>
        /\ HasBit(SystemStatusBits, SSB_SD)
        /\ obs.appended = 0
        /\ msgbuf # <<>>
        /\ "msgbuf" \in Range(serial)
        /\ obs.handed = 1

\* C24, amended: when persistence is unavailable during OBS_Do(true) with a
\* valid clock, SSB_SD is set after the call, nothing is appended, the record
\* is still assembled, it is emitted on the console exactly when the serial
\* console is enabled, and it is handed to SD_LogObservation once only.
C24_UnpersistedOnEnabledConsole ==
    Unpersisted =>
        /\ HasBit(SystemStatusBits, SSB_SD)
        /\ obs.appended = 0
        /\ msgbuf # <<>>
        /\ ("msgbuf" \in Range(serial)) <=> SerialConsoleEnabled
        /\ obs.handed = 1

\* C24 happens: the card was found at boot and had been written, the open
\* failed in this OBS_Do(true), and the record went to the enabled console
C24_Witness ==
    /\ Unpersisted
    /\ SD_exists
    /\ ~HasBit(obs.ssb0, SSB_SD)
    /\ HasBit(SystemStatusBits, SSB_SD)
    /\ SerialConsoleEnabled
    /\ "msgbuf" \in Range(serial)


\* OBS_Do read the one-wire sensor and both scratchpad reads (the first and
\* the re-read) failed the CRC
DsCrcFailed ==
    /\ Observed
    /\ "ds" \in obs.reads
    /\ ~obs.inp.pads[1].crc
    /\ ~obs.inp.pads[2].crc

\* C25: when a one-wire temperature read fails its CRC check during an
\* observation and the single retry fails too, the one-wire slot is marked
\* absent (ds_found false) and SSB_DS_1 is set in SystemStatusBits, and the
\* observation still completes (the record is assembled).
C25_CrcFailureMarksAbsent ==
    DsCrcFailed =>
        /\ ~ds_found
        /\ HasBit(SystemStatusBits, SSB_DS_1)
        /\ msgbuf # <<>>


\* C26: with ds_type = 0 (5 m sensor) the value returned by s_gauge_median
\* is the raw median times 5, and with ds_type = 1 (10 m sensor) it is the
\* raw median times 10.
C26_ScaleFollowsDsType ==
    (fin.fn = "median" /\ fout.done) =>
        /\ fin.t = 0 => fout.n = RawMedian(fin.win) * 5
        /\ fin.t = 1 => fout.n = RawMedian(fin.win) * 10


NotDash(c) == c # "-"

\* C27: a persisted record is appended to the file /OBS/YYYYMMDD.log named
\* from the date of the record's own "at" timestamp: the file name and the
\* timestamp come from the same clock read.
C27_FileOfRecordDate ==
    (Observed /\ obs.appended = 1) =>
        obs.file = <<"/", "O", "B", "S", "/">>
                   \o SelectSeq(FieldOf(msgbuf, "at").text, NotDash)
                   \o <<".", "l", "o", "g">>

\* C27 happens: a record was appended after the clock had moved on to the
\* next day since the previous clock read
C27_Witness ==
    /\ Observed
    /\ obs.appended = 1
    /\ obs.inp.adv = 1
    /\ now.day = MaxDay
    /\ obs.file = SD_logfile(now)


\* a record was assembled in normal operation and handed to the SD log
RecordProduced == pc = "n_jpo" /\ Observed /\ obs.log /\ msgbuf # <<>>

\* C28: once the system is in normal operation with a valid clock, under
\* fair scheduling of the loop every cycle assembles exactly one record and
\* then sleeps, whatever sensors are absent or failing and whether or not the
\* record can be stored: OBS_Do(true) always ends with a record, the sleep
\* follows and ends, and from every pass through loop() with a valid clock a
\* further record is produced.
C28_GracefulDegradation ==
    /\ [][pc = "n_obs" => RecordProduced']_vars
    /\ [][(pc \in {"n_jpo", "n_sleep"}) => ~obs'.called]_vars
    /\ [](pc = "n_obs" => <>RecordProduced)
    /\ [](RecordProduced => <>(pc = "n_sleep"))
    /\ [](pc = "n_sleep" => <>(pc = "loop" /\ RTC_valid))
    /\ []((pc = "loop" /\ RTC_valid) => <>RecordProduced)

\* C28 happens: after the first cycle, a record is produced with no Bosch
\* sensor present and without being stored
C28_Witness ==
    /\ RecordProduced
    /\ ~JustPoweredOn
    /\ obs.appended = 0
    /\ ~BMX_exists[1]
    /\ ~BMX_exists[2]


\* the status word serialized in the record in msgbuf
HthOf(rec) == FieldOf(rec, "hth").val.v \div Unit

C30_OpenFailureInNextRecord ==
    [][/\ pc \in {"n_obs", "cal_obs"} =>
             /\ Observed'
             /\ HasBit(HthOf(msgbuf'), SSB_SD) = HasBit(SystemStatusBits, SSB_SD)
       /\ (pc = "n_obs" /\ SD_exists) =>
             HasBit(SystemStatusBits', SSB_SD) = ~obs'.inp.open
       /\ (pc = "n_obs" /\ SD_exists) =>
             obs'.appended = (IF obs'.inp.open THEN 1 ELSE 0)
       /\ pc \notin {"n_obs", "setup"} =>
             HasBit(SystemStatusBits', SSB_SD) = HasBit(SystemStatusBits, SSB_SD)]_vars

\* C30 happens: the open failed in this observation, whose record does not
\* show SSB_SD, after a write that had succeeded
C30_Witness ==
    /\ pc = "n_jpo"
    /\ Observed
    /\ SD_exists
    /\ ~obs.inp.open
    /\ ~HasBit(HthOf(msgbuf), SSB_SD)
    /\ HasBit(SystemStatusBits, SSB_SD)
    /\ ~JustPoweredOn


\* slot n was found at boot (its type was recorded, its bit left clear), was
\* since flagged offline by I2C_Check_Sensors, and has not come online again
FlaggedOffline(n) == BMX_type[n] # BMX_TYPE_UNKNOWN /\ ~BMX_exists[n]

\* C31: once I2C_Check_Sensors has flagged a barometric slot offline, every
\* record assembled afterwards carries SSB_BMX_n in its hth until
\* I2C_Check_Sensors detects the slot online again.
C31_OfflineBitInEveryRecord ==
    Observed =>
        \A n \in Slots :
            FlaggedOffline(n) => HasBit(HthOf(msgbuf), SSB_BMX(n))


\* C32: the driver object OBS_Do reads for a present slot is an object whose
\* most recent initialization succeeded and was made for that slot's address;
\* OBS_Do never reads an object that was never initialized, or that was last
\* initialized for the other slot's address.
C32_ReadsDriverOfOwnSlot ==
    Observed =>
        \A n \in Slots :
            LET d == ObsDriver(n, BMX_chip_id[n], BMX_type[n])
            IN  (BMX_exists[n] /\ d \in obs.reads) =>
                    /\ drv[d].ok
                    /\ drv[d].addr = BmxAddress(n)


\* C33: every bp, bt and bh value emitted for a present barometric slot is
\* the gated result of a driver read performed in the same OBS_Do call (the
\* pressure and temperature of the slot's driver, and its humidity): the 0.0
\* the locals p, t, h start with is never what the record shows.
C33_FieldsComeFromDriverReads ==
    Observed =>
        \A n \in Slots :
            BMX_exists[n] =>
                LET d == ObsDriver(n, BMX_chip_id[n], BMX_type[n])
                    r == obs.inp.bmx[n]
                IN  /\ d \in obs.reads
                    /\ FieldOf(msgbuf, "bp" \o Num(n)).val = GateP(r.p)
                    /\ FieldOf(msgbuf, "bt" \o Num(n)).val = GateT(r.t)
                    /\ d = "bme" \o Num(n)
                    /\ FieldOf(msgbuf, "bh" \o Num(n)).val = GateRH(r.h)


\* OBS_Do called getDSTemp()
DsRead == Observed /\ "ds" \in obs.reads

\* C34: after every call of getDSTemp, ds_valid false implies that ds_reading
\* is the temperature error sentinel -999.9, and the dt1 field of the record
\* holds that reading.
C34_InvalidReadingIsSentinel ==
    DsRead =>
        /\ FieldOf(msgbuf, "dt1").val = ds_reading
        /\ ~ds_valid => ds_reading = Sentinel

\* the temperature a scratchpad encodes: its raw word read as a 16-bit
\* two's-complement number of sixteenths of a degree
PadTemperature(pad) ==
    F((IF pad.raw >= 32768 THEN pad.raw - 65536 ELSE pad.raw) * (Unit \div 16))

\* C35: for every CRC-valid 12-bit scratchpad whose raw word encodes a
\* temperature T inside the envelope -40..60, getDSTempByAddr sets ds_valid
\* true and ds_reading = T, sub-zero temperatures included.
C35_SubZeroTemperatureRead ==
    DsRead =>
        LET pad == obs.inp.pads[1]
        IN  (pad.crc /\ pad.cfg = 96 /\ InEnvelope("T", PadTemperature(pad))) =>
                /\ ds_valid
                /\ ds_reading = PadTemperature(pad)


\* C36: in every reachable state, for each barometric slot n, SSB_BMX_n set
\* in SystemStatusBits implies that BMX_n_exists is false.
C36_MissingBitOnlyWhenAbsent ==
    \A n \in Slots : HasBit(SystemStatusBits, SSB_BMX(n)) => ~BMX_exists[n]

\* C36 happens: after the one-time clear, a recheck has brought one slot
\* online again while the other one is flagged offline
C36_Witness ==
    /\ ~JustPoweredOn
    /\ chk.called
    /\ \E n \in Slots :
          /\ ~chk.was[n] /\ BMX_exists[n]
          /\ ~HasBit(SystemStatusBits, SSB_BMX(n))
          /\ ~BMX_exists[OtherSlot(n)]
          /\ HasBit(SystemStatusBits, SSB_BMX(OtherSlot(n)))


\* C37: OBS_Do never changes slot presence or sensor fault state: across any
\* call BMX_1_exists, BMX_2_exists, MCP_1_exists, ds_found, the chip ids and
\* types, JustPoweredOn and every bit of SystemStatusBits other than SSB_SD
\* are unchanged, also when a quantity is replaced by its sentinel.
C37_ObservationKeepsPresence ==
    [][obs'.called =>
          /\ BMX_exists' = BMX_exists
          /\ MCP_1_exists' = MCP_1_exists
          /\ ds_found' = ds_found
          /\ BMX_chip_id' = BMX_chip_id
          /\ BMX_type' = BMX_type
          /\ JustPoweredOn' = JustPoweredOn
          /\ \A b \in StatusBits \ {SSB_SD} :
                HasBit(SystemStatusBits', b) = HasBit(SystemStatusBits, b)
          /\ ClrBit(SystemStatusBits', SSB_SD) = ClrBit(SystemStatusBits, SSB_SD)]_vars

\* C37 happens: an observation replaced a NaN temperature by the sentinel
\* while the power-on bit and a missing-slot bit were set, and kept them
C37_Witness ==
    /\ Observed
    /\ \E n \in Slots :
          /\ SlotRead(n)
          /\ obs.inp.bmx[n].t.nan
          /\ FieldOf(msgbuf, "bt" \o Num(n)).val = Sentinel
          /\ HasBit(SystemStatusBits, SSB_BMX(OtherSlot(n)))
    /\ HasBit(obs.ssb0, SSB_PWRON)
    /\ HasBit(SystemStatusBits, SSB_PWRON)


\* the status word without the two slot bits
OtherBits(ssb) == ClrBit(ClrBit(ssb, SSB_BMX_1), SSB_BMX_2)
\* C38: I2C_Check_Sensors changes BMX_1_exists, BMX_2_exists, SSB_BMX_1 and
\* SSB_BMX_2 only: MCP_1_exists, ds_found, every other status bit, the chip
\* ids and the types are as before the call; and after setup no step changes
\* MCP_1_exists, ds_found, a chip id or a type.
C38_RecheckTouchesSlotsOnly ==
    [][/\ chk'.called =>
             /\ MCP_1_exists' = MCP_1_exists
             /\ ds_found' = ds_found
             /\ BMX_chip_id' = BMX_chip_id
             /\ BMX_type' = BMX_type
             /\ OtherBits(SystemStatusBits') = OtherBits(SystemStatusBits)
             /\ \A b \in {SSB_MCP_1, SSB_DS_1, SSB_SD, SSB_RTC, SSB_PWRON} :
                   HasBit(SystemStatusBits', b) = HasBit(SystemStatusBits, b)
       /\ ~boot'.called =>
             /\ MCP_1_exists' = MCP_1_exists
             /\ ds_found' = ds_found
             /\ BMX_chip_id' = BMX_chip_id
             /\ BMX_type' = BMX_type]_vars

\* C38 happens: a recheck took a slot offline while the power-on bit and the
\* bit of a missing precision-temperature sensor were set, and kept them
C38_Witness ==
    /\ chk.called
    /\ \E n \in Slots :
          /\ chk.was[n]
          /\ ~BMX_exists[n]
          /\ HasBit(SystemStatusBits, SSB_BMX(n))
    /\ ~MCP_1_exists
    /\ HasBit(SystemStatusBits, SSB_MCP_1)
    /\ HasBit(SystemStatusBits, SSB_PWRON)


\* C39: after rtc_initialize RTC_valid is true if and only if the clock chip
\* answered at its I2C address and reports a year in 2022..2031, SSB_RTC is
\* set exactly when the chip was not found, and no step ever takes RTC_valid
\* from true back to false.
C39_ClockValidity ==
    /\ [](boot.called =>
             /\ RTC_valid <=> (RTC_exists /\ rtc.year >= 2022 /\ rtc.year <= 2031)
             /\ HasBit(SystemStatusBits, SSB_RTC) <=> ~RTC_exists)
    /\ [](\A y \in 2020..2033 :
             /\ rtc_initialize("valid", y).valid <=> (y >= 2022 /\ y <= 2031)
             /\ ~rtc_initialize("noi2c", y).valid
             /\ ~rtc_initialize("nobegin", y).valid)
    /\ [][RTC_valid => RTC_valid']_vars

\* C39 happens: setup found a clock chip whose year is outside 2022..2031 and
\* left RTC_valid false with SSB_RTC clear
C39_Witness ==
    /\ boot.called
    /\ RTC_exists
    /\ ~YearValid(rtc.year)
    /\ ~RTC_valid
    /\ ~HasBit(SystemStatusBits, SSB_RTC)

====
